---- MODULE Spec2Model ----
(***************************************************************************)
(* SpirvBuilder (tools/clang/lib/SPIRV/SpirvBuilder.cpp) as a state        *)
(* machine: the builder's fields, the nodes it allocates in the            *)
(* SpirvContext arena, and one action per public member function.          *)
(*                                                                         *)
(* assert(c && "msg") is read as the code is written, with assertions on:  *)
(* a false condition ends the process before the next statement runs.      *)
(* The process then takes no further step (aborted # "none").              *)
(***************************************************************************)
EXTENDS Integers, Sequences, FiniteSets, TLC

\* ------------------------------------------------------------------ bounds
MaxFuncs == 2      \* functions begun in one run
MaxBlocks == 2     \* basic blocks created in one run
MaxFnNodes == 2    \* parameters plus variables of one function
MaxNodes == 3      \* parameters, variables and instructions allocated in one run
MaxFill == 1       \* SpecEmit, SpecCF: loads placed ahead of the call under study
MaxEdges == 1      \* SpecCF: successor, merge and continue edges set in one run

\* ------------------------------------------------------------- null handles
NoFn == 0          \* function == nullptr
NoBlock == 0       \* a SpirvBasicBlock* that is nullptr
NoInst == 0        \* a SpirvInstruction* that is nullptr

\* An indeterminate, non-null SpirvBasicBlock*: the constructor's initialiser
\* list names astContext, context, module and function and leaves insertPoint
\* out, so until setInsertPoint or endFunction writes it the member holds
\* whatever the storage held: nullptr (NoBlock) or a pointer to no block.
Wild == -1

VARIABLES
  function,        \* SpirvFunction *function: index into fns, or NoFn
  insertPoint,     \* SpirvBasicBlock *insertPoint: index into blocks, NoBlock or Wild
  basicBlocks,     \* std::vector<SpirvBasicBlock*> basicBlocks: the pending list
  modFunctions,    \* module->functions: the functions added by addFunction, in order
  capabilities,    \* module's capability set
  fns,             \* arena: every SpirvFunction allocated, by index
  blocks,          \* arena: every SpirvBasicBlock allocated, by index
  nNodes,          \* arena: parameters, variables and instructions allocated so far
  aborted,         \* "none", or the message of the assertion that ended the process
  lastOp           \* the last call made on the builder: its name, arguments, outcome

vars == <<function, insertPoint, basicBlocks, modFunctions, capabilities,
          fns, blocks, nNodes, aborted, lastOp>>

\* Everything the builder has built or points at (all but the call record).
built == <<function, insertPoint, basicBlocks, modFunctions, capabilities,
           fns, blocks, nNodes>>

BlockIds == 1..Len(blocks)
FnIds == 1..Len(fns)

\* ---------------------------------------------------------------- inputs
Names == {"n"}               \* llvm::StringRef debug names
Types == {"int"}             \* QualType of a result or a value
\* SpirvInstruction* handles the caller holds for nodes built elsewhere
\* (constants, global variables): kept apart from the stamps 1, 2, .. of the
\* nodes this builder allocates.
Operands == {-2}
\* SpirvBasicBlock* handles the caller holds: every block createBasicBlock has
\* returned so far, and nullptr.
BlockArgs == BlockIds \cup {NoBlock}

\* ------------------------------------------------------------ call record
Call(name, args, res, ret) ==
  [name |-> name, args |-> args, res |-> res, ret |-> ret]

\* a failed assert: the message is recorded, the process stops, nothing else runs
Abort(msg, name, args) ==
  /\ aborted' = msg
  /\ lastOp' = Call(name, args, "abort", 0)
  /\ UNCHANGED built

\* ------------------------------------------------------- node containers
\* SpirvFunction(returnType, id 0, MaskNone, loc, funcName): no parameter,
\* no variable, no block
NewFunction(returnType, funcName) ==
  [name |-> funcName, ty |-> returnType,
   params |-> <<>>, vars |-> <<>>, blocks |-> <<>>]

\* SpirvBasicBlock(id 0, name): no instruction, no successor, no merge or
\* continue target
NewBasicBlock(name) ==
  [name |-> name, insts |-> <<>>, succ |-> {}, merge |-> NoBlock, cont |-> NoBlock]

\* SpirvFunction::addParameter / addVariable / addBasicBlock: push_back
FnAddParameter(f, p) == [f EXCEPT !.params = Append(@, p)]
FnAddVariable(f, v) == [f EXCEPT !.vars = Append(@, v)]
FnAddBasicBlock(f, bb) == [f EXCEPT !.blocks = Append(@, bb)]

\* SpirvBasicBlock::addInstruction: push_back on the block's instruction list
BBAddInstruction(b, ins) == [b EXCEPT !.insts = Append(@, ins)]

\* SpirvModule::addCapability behind requireCapability: insertion in a set
requireCapability(caps, cap) == caps \cup {cap}

\* ------------------------------------------------------------- lifecycle
RECURSIVE AttachAll_reversed(_, _)
\* the loop of endFunction walking the pending list from the back
AttachAll_reversed(f, pending) ==
  IF pending = <<>> THEN f
  ELSE AttachAll_reversed(FnAddBasicBlock(f, pending[Len(pending)]),
                          SubSeq(pending, 1, Len(pending) - 1))

RECURSIVE AttachAll(_, _)
\* the loop of endFunction: for (auto *bb : basicBlocks) function->addBasicBlock(bb)
AttachAll(f, pending) ==
  IF pending = <<>> THEN f
  ELSE AttachAll(FnAddBasicBlock(f, Head(pending)), Tail(pending))

beginFunction(returnType, funcName) ==
  /\ aborted = "none"
  /\ IF function # NoFn
     THEN Abort("found nested function", "beginFunction", <<>>)
     ELSE /\ Len(fns) < MaxFuncs
          /\ fns' = Append(fns, NewFunction(returnType, funcName))
          /\ function' = Len(fns) + 1
          /\ lastOp' = Call("beginFunction", <<>>, "ok", Len(fns) + 1)
          /\ UNCHANGED <<insertPoint, basicBlocks, modFunctions, capabilities,
                         blocks, nNodes, aborted>>

addFnParam(ptrType, name) ==
  /\ aborted = "none"
  /\ IF function = NoFn
     THEN Abort("found detached parameter", "addFnParam", <<>>)
     ELSE /\ nNodes < MaxNodes
          /\ Len(fns[function].params) + Len(fns[function].vars) < MaxFnNodes
          /\ nNodes' = nNodes + 1
          /\ fns' = [fns EXCEPT ![function] =
                       FnAddParameter(@, [id |-> nNodes + 1, name |-> name,
                                          ty |-> ptrType])]
          /\ lastOp' = Call("addFnParam", <<>>, "ok", nNodes + 1)
          /\ UNCHANGED <<function, insertPoint, basicBlocks, modFunctions,
                         capabilities, blocks, aborted>>

\* addFnVar handing the variable to addParameter
addFnVar_intoParams(valueType, name, init) ==
  /\ aborted = "none"
  /\ IF function = NoFn
     THEN Abort("found detached local variable", "addFnVar", <<init>>)
     ELSE /\ nNodes < MaxNodes
          /\ Len(fns[function].params) + Len(fns[function].vars) < MaxFnNodes
          /\ nNodes' = nNodes + 1
          /\ fns' = [fns EXCEPT ![function] =
                       FnAddParameter(@, [id |-> nNodes + 1, name |-> name,
                                          ty |-> valueType, init |-> init])]
          /\ lastOp' = Call("addFnVar", <<init>>, "ok", nNodes + 1)
          /\ UNCHANGED <<function, insertPoint, basicBlocks, modFunctions,
                         capabilities, blocks, aborted>>

addFnVar(valueType, name, init) ==
  /\ aborted = "none"
  /\ IF function = NoFn
     THEN Abort("found detached local variable", "addFnVar", <<init>>)
     ELSE /\ nNodes < MaxNodes
          /\ Len(fns[function].params) + Len(fns[function].vars) < MaxFnNodes
          /\ nNodes' = nNodes + 1
          /\ fns' = [fns EXCEPT ![function] =
                       FnAddVariable(@, [id |-> nNodes + 1, name |-> name,
                                         ty |-> valueType, init |-> init])]
          /\ lastOp' = Call("addFnVar", <<init>>, "ok", nNodes + 1)
          /\ UNCHANGED <<function, insertPoint, basicBlocks, modFunctions,
                         capabilities, blocks, aborted>>

\* endFunction resetting the capability set along with the function state
endFunction_resetsCapabilities ==
  /\ aborted = "none"
  /\ IF function = NoFn
     THEN Abort("no active function", "endFunction", <<>>)
     ELSE /\ fns' = [fns EXCEPT ![function] = AttachAll(@, basicBlocks)]
          /\ basicBlocks' = <<>>
          /\ modFunctions' = Append(modFunctions, function)
          /\ function' = NoFn
          /\ insertPoint' = NoBlock
          /\ capabilities' = {}
          /\ lastOp' = Call("endFunction", <<>>, "ok", 0)
          /\ UNCHANGED <<blocks, nNodes, aborted>>

endFunction ==
  /\ aborted = "none"
  /\ IF function = NoFn
     THEN Abort("no active function", "endFunction", <<>>)
     ELSE /\ fns' = [fns EXCEPT ![function] = AttachAll(@, basicBlocks)]
          /\ basicBlocks' = <<>>
          /\ modFunctions' = Append(modFunctions, function)
          /\ function' = NoFn
          /\ insertPoint' = NoBlock
          /\ lastOp' = Call("endFunction", <<>>, "ok", 0)
          /\ UNCHANGED <<capabilities, blocks, nNodes, aborted>>

\* createBasicBlock with the assert left out
createBasicBlock_unchecked(name) ==
  /\ aborted = "none"
  /\ Len(blocks) < MaxBlocks
  /\ blocks' = Append(blocks, NewBasicBlock(name))
  /\ basicBlocks' = Append(basicBlocks, Len(blocks) + 1)
  /\ lastOp' = Call("createBasicBlock", <<>>, "ok", Len(blocks) + 1)
  /\ UNCHANGED <<function, insertPoint, modFunctions, capabilities,
                 fns, nNodes, aborted>>

createBasicBlock(name) ==
  /\ aborted = "none"
  /\ IF function = NoFn
     THEN Abort("found detached basic block", "createBasicBlock", <<>>)
     ELSE /\ Len(blocks) < MaxBlocks
          /\ blocks' = Append(blocks, NewBasicBlock(name))
          /\ basicBlocks' = Append(basicBlocks, Len(blocks) + 1)
          /\ lastOp' = Call("createBasicBlock", <<>>, "ok", Len(blocks) + 1)
          /\ UNCHANGED <<function, insertPoint, modFunctions, capabilities,
                         fns, nNodes, aborted>>

\* The cursor is positioned from outside: the setter stores the handle it is
\* given and checks nothing.
setInsertPoint(bb) ==
  /\ aborted = "none"
  /\ insertPoint' = bb
  /\ lastOp' = Call("setInsertPoint", <<bb>>, "ok", 0)
  /\ UNCHANGED <<function, basicBlocks, modFunctions, capabilities,
                 fns, blocks, nNodes, aborted>>

\* ------------------------------------------------ a call through insertPoint
\* insertPoint->member(...) with insertPoint indeterminate (Wild): the assert
\* passes, and the call goes through a pointer to no block.  The build either
\* faults there (crash: what ran before the first such call stays done) or
\* writes to storage that is no part of the module and runs on.
WildDeref(name, args, nFirst, capsFirst, nAll, capsAll) ==
  /\ lastOp' = Call(name, args, "ub", 0)
  /\ UNCHANGED <<function, insertPoint, basicBlocks, modFunctions, fns, blocks>>
  /\ \/ /\ aborted' = "fault"
        /\ nNodes' = nNodes + nFirst
        /\ capabilities' = capabilities \cup capsFirst
     \/ /\ aborted' = aborted
        /\ nNodes' = nNodes + nAll
        /\ capabilities' = capabilities \cup capsAll

RECURSIVE Stamp(_, _)
\* the nodes of one call in allocation order: the k-th gets arena stamp base + k
Stamp(tmpl, base) ==
  IF tmpl = <<>> THEN <<>>
  ELSE <<[Head(tmpl) EXCEPT !.id = base + 1]>> \o Stamp(Tail(tmpl), base + 1)

RECURSIVE AddInstructions(_, _)
\* insertPoint->addInstruction(..) once per node, in the order of the calls
AddInstructions(b, nodes) ==
  IF nodes = <<>> THEN b
  ELSE AddInstructions(BBAddInstruction(b, Head(nodes)), Tail(nodes))

\* an instruction node before it is placed: its class, opcode, result type
\* ("void": none) and the constructor's remaining arguments in order, handles
\* and literals alike
Inst(cls, op, ty, a) == [id |-> 0, cls |-> cls, op |-> op, ty |-> ty, a |-> a]

\* Emit with every requireCapability moved ahead of the assert
Emit_requireFirst(name, args, tmpl, capsFirst, capsAll, ret) ==
  /\ aborted = "none"
  /\ IF insertPoint = NoBlock
     THEN /\ aborted' = "null insert point"
          /\ lastOp' = Call(name, args, "abort", 0)
          /\ capabilities' = capabilities \cup capsAll
          /\ UNCHANGED <<function, insertPoint, basicBlocks, modFunctions,
                         fns, blocks, nNodes>>
     ELSE /\ nNodes < MaxNodes
          /\ IF insertPoint = Wild
             THEN WildDeref(name, args, 1, capsAll, Len(tmpl), capsAll)
             ELSE /\ blocks' = [blocks EXCEPT ![insertPoint] =
                                  AddInstructions(@, Stamp(tmpl, nNodes))]
                  /\ nNodes' = nNodes + Len(tmpl)
                  /\ capabilities' = capabilities \cup capsAll
                  /\ lastOp' = Call(name, args, "ok",
                                    IF ret = 0 THEN 0 ELSE nNodes + ret)
                  /\ UNCHANGED <<function, insertPoint, basicBlocks,
                                 modFunctions, fns, aborted>>

\* Emit calling insertPoint->addInstruction twice for each node
Emit_addTwice(name, args, tmpl, capsFirst, capsAll, ret) ==
  /\ aborted = "none"
  /\ IF insertPoint = NoBlock
     THEN Abort("null insert point", name, args)
     ELSE /\ nNodes < MaxNodes
          /\ IF insertPoint = Wild
             THEN WildDeref(name, args, 1, capsFirst, Len(tmpl), capsAll)
             ELSE /\ blocks' = [blocks EXCEPT ![insertPoint] =
                                  AddInstructions(
                                    AddInstructions(@, Stamp(tmpl, nNodes)),
                                    Stamp(tmpl, nNodes))]
                  /\ nNodes' = nNodes + Len(tmpl)
                  /\ capabilities' = capabilities \cup capsAll
                  /\ lastOp' = Call(name, args, "ok",
                                    IF ret = 0 THEN 0 ELSE nNodes + ret)
                  /\ UNCHANGED <<function, insertPoint, basicBlocks,
                                 modFunctions, fns, aborted>>

\* The common shape of an instruction constructor:
\*   assert(insertPoint && "null insert point");
\*   requireCapability(..) for capsFirst        (before the first addInstruction)
\*   for each node of tmpl: new (context) ..; insertPoint->addInstruction(..)
\*   requireCapability(..) for the rest of capsAll
\* ret is the position in tmpl of the node returned (0: void).
Emit(name, args, tmpl, capsFirst, capsAll, ret) ==
  /\ aborted = "none"
  /\ IF insertPoint = NoBlock
     THEN Abort("null insert point", name, args)
     ELSE /\ nNodes < MaxNodes
          /\ IF insertPoint = Wild
             THEN WildDeref(name, args, 1, capsFirst, Len(tmpl), capsAll)
             ELSE /\ blocks' = [blocks EXCEPT ![insertPoint] =
                                  AddInstructions(@, Stamp(tmpl, nNodes))]
                  /\ nNodes' = nNodes + Len(tmpl)
                  /\ capabilities' = capabilities \cup capsAll
                  /\ lastOp' = Call(name, args, "ok",
                                    IF ret = 0 THEN 0 ELSE nNodes + ret)
                  /\ UNCHANGED <<function, insertPoint, basicBlocks,
                                 modFunctions, fns, aborted>>

createLoad(resultType, pointer) ==
  Emit("createLoad", <<pointer>>,
       <<Inst("SpirvLoad", "OpLoad", resultType, <<pointer>>)>>, {}, {}, 1)

createStore(address, value) ==
  Emit("createStore", <<address, value>>,
       <<Inst("SpirvStore", "OpStore", "void", <<address, value>>)>>, {}, {}, 0)

\* ------------------------------------------- straightforward constructors
createCompositeConstruct(resultType, c1, c2) ==
  Emit("createCompositeConstruct", <<c1, c2>>,
       <<Inst("SpirvComposite", "OpCompositeConstruct", resultType, <<c1, c2>>)>>,
       {}, {}, 1)

createCompositeExtract(resultType, composite, index) ==
  Emit("createCompositeExtract", <<composite, index>>,
       <<Inst("SpirvCompositeExtract", "OpCompositeExtract", resultType,
              <<composite, index>>)>>, {}, {}, 1)

createCompositeInsert(resultType, composite, index, object) ==
  Emit("createCompositeInsert", <<composite, index, object>>,
       <<Inst("SpirvCompositeInsert", "OpCompositeInsert", resultType,
              <<composite, object, index>>)>>, {}, {}, 1)

createVectorShuffle(resultType, vector1, vector2, selector) ==
  Emit("createVectorShuffle", <<vector1, vector2, selector>>,
       <<Inst("SpirvVectorShuffle", "OpVectorShuffle", resultType,
              <<vector1, vector2, selector>>)>>, {}, {}, 1)

createFunctionCall(returnType, func, param) ==
  Emit("createFunctionCall", <<func, param>>,
       <<Inst("SpirvFunctionCall", "OpFunctionCall", returnType, <<func, param>>)>>,
       {}, {}, 1)

createAccessChain(resultType, base, index) ==
  Emit("createAccessChain", <<base, index>>,
       <<Inst("SpirvAccessChain", "OpAccessChain", resultType, <<base, index>>)>>,
       {}, {}, 1)

\* createUnaryOp whose switch has no case for OpImageQuerySamples
UnaryOpCaps_noSamples(op) ==
  IF op \in {"OpImageQuerySize", "OpImageQueryLevels"}
  THEN {"ImageQuery"} ELSE {}

\* the switch (op) of createUnaryOp: the capability follows addInstruction
UnaryOpCaps(op) ==
  IF op \in {"OpImageQuerySize", "OpImageQueryLevels", "OpImageQuerySamples"}
  THEN {"ImageQuery"} ELSE {}

createUnaryOp(op, resultType, operand) ==
  Emit("createUnaryOp", <<operand>>,
       <<Inst("SpirvUnaryOp", op, resultType, <<operand>>)>>,
       {}, UnaryOpCaps(op), 1)

\* the switch (op) of createBinaryOp
BinaryOpCaps(op) ==
  IF op \in {"OpImageQueryLod", "OpImageQuerySizeLod"}
  THEN {"ImageQuery"} ELSE {}

createBinaryOp(op, resultType, lhs, rhs) ==
  Emit("createBinaryOp", <<lhs, rhs>>,
       <<Inst("SpirvBinaryOp", op, resultType, <<lhs, rhs>>)>>,
       {}, BinaryOpCaps(op), 1)

createSpecConstantBinaryOp(op, resultType, lhs, rhs) ==
  Emit("createSpecConstantBinaryOp", <<lhs, rhs>>,
       <<Inst("SpirvSpecConstantBinaryOp", op, resultType, <<lhs, rhs>>)>>,
       {}, {}, 1)

\* op is a parameter the node is not given
createGroupNonUniformElect(op, resultType, execScope) ==
  Emit("createGroupNonUniformElect", <<execScope>>,
       <<Inst("SpirvNonUniformElect", "OpGroupNonUniformElect", resultType,
              <<execScope>>)>>, {}, {}, 1)

createGroupNonUniformUnaryOp(op, resultType, execScope, operand, groupOp) ==
  Emit("createGroupNonUniformUnaryOp", <<execScope, operand, groupOp>>,
       <<Inst("SpirvNonUniformUnaryOp", op, resultType,
              <<execScope, groupOp, operand>>)>>, {}, {}, 1)

createGroupNonUniformBinaryOp(op, resultType, execScope, operand1, operand2) ==
  Emit("createGroupNonUniformBinaryOp", <<execScope, operand1, operand2>>,
       <<Inst("SpirvNonUniformBinaryOp", op, resultType,
              <<execScope, operand1, operand2>>)>>, {}, {}, 1)

createAtomicOp(opcode, resultType, originalValuePtr, scope, memorySemantics, valueToOp) ==
  Emit("createAtomicOp", <<originalValuePtr, scope, memorySemantics, valueToOp>>,
       <<Inst("SpirvAtomic", opcode, resultType,
              <<originalValuePtr, scope, memorySemantics, valueToOp>>)>>,
       {}, {}, 1)

createAtomicCompareExchange(resultType, originalValuePtr, scope, equalMemorySemantics, unequalMemorySemantics, valueToOp, comparator) ==
  Emit("createAtomicCompareExchange",
       <<originalValuePtr, scope, equalMemorySemantics, unequalMemorySemantics,
         valueToOp, comparator>>,
       <<Inst("SpirvAtomic", "OpAtomicCompareExchange", resultType,
              <<originalValuePtr, scope, equalMemorySemantics,
                unequalMemorySemantics, valueToOp, comparator>>)>>,
       {}, {}, 1)

createImageTexelPointer(resultType, image, coordinate, sample) ==
  Emit("createImageTexelPointer", <<image, coordinate, sample>>,
       <<Inst("SpirvImageTexelPointer", "OpImageTexelPointer", resultType,
              <<image, coordinate, sample>>)>>, {}, {}, 1)

\* astContext.BoolTy is the result type
createImageSparseTexelsResident(residentCode) ==
  Emit("createImageSparseTexelsResident", <<residentCode>>,
       <<Inst("SpirvImageSparseTexelsResident", "OpImageSparseTexelsResident",
              "bool", <<residentCode>>)>>, {}, {}, 1)

createSelect(resultType, condition, trueValue, falseValue) ==
  Emit("createSelect", <<condition, trueValue, falseValue>>,
       <<Inst("SpirvSelect", "OpSelect", resultType,
              <<condition, trueValue, falseValue>>)>>, {}, {}, 1)

createExtInst(resultType, set, inst, operand) ==
  Emit("createExtInst", <<set, inst, operand>>,
       <<Inst("SpirvExtInst", "OpExtInst", resultType, <<set, inst, operand>>)>>,
       {}, {}, 1)

createBarrier(memoryScope, memorySemantics, exec) ==
  Emit("createBarrier", <<memoryScope, memorySemantics, exec>>,
       <<Inst("SpirvBarrier", "OpBarrier", "void",
              <<memoryScope, memorySemantics, exec>>)>>, {}, {}, 0)

createBitFieldInsert(resultType, base, insert, offset, count) ==
  Emit("createBitFieldInsert", <<base, insert, offset, count>>,
       <<Inst("SpirvBitFieldInsert", "OpBitFieldInsert", resultType,
              <<base, insert, offset, count>>)>>, {}, {}, 1)

\* isSigned: 1 or 0
createBitFieldExtract(resultType, base, offset, count, isSigned) ==
  Emit("createBitFieldExtract", <<base, offset, count, isSigned>>,
       <<Inst("SpirvBitFieldExtract", "OpBitFieldExtract", resultType,
              <<base, offset, count, isSigned>>)>>, {}, {}, 1)

\* createEmitVertex written as its neighbours are: assert, new, addInstruction
createEmitVertex_emits ==
  Emit("createEmitVertex", <<>>,
       <<Inst("SpirvEmitVertex", "OpEmitVertex", "void", <<>>)>>, {}, {}, 0)

\* bodies that hold a TODO comment and no statement
createEmitVertex ==
  /\ aborted = "none"
  /\ lastOp' = Call("createEmitVertex", <<>>, "ok", 0)
  /\ UNCHANGED <<built, aborted>>

createEndPrimitive ==
  /\ aborted = "none"
  /\ lastOp' = Call("createEndPrimitive", <<>>, "ok", 0)
  /\ UNCHANGED <<built, aborted>>


\* ------------------------------------------------------------ block edges
\* insertPoint->member(bb) after assert(insertPoint): no node is allocated
EdgeCall(name, bb, edited) ==
  /\ aborted = "none"
  /\ IF insertPoint = NoBlock
     THEN Abort("null insert point", name, <<bb>>)
     ELSE IF insertPoint = Wild
          THEN WildDeref(name, <<bb>>, 0, {}, 0, {})
          ELSE /\ blocks' = [blocks EXCEPT ![insertPoint] = edited]
               /\ lastOp' = Call(name, <<bb>>, "ok", 0)
               /\ UNCHANGED <<function, insertPoint, basicBlocks, modFunctions,
                              capabilities, fns, nNodes, aborted>>

\* SpirvBasicBlock::addSuccessor / setMergeTarget / setContinueTarget
BBAddSuccessor(b, bb) == [b EXCEPT !.succ = @ \cup {bb}]
BBSetMergeTarget(b, bb) == [b EXCEPT !.merge = bb]
BBSetContinueTarget(b, bb) == [b EXCEPT !.cont = bb]

addSuccessor(successorBB) ==
  EdgeCall("addSuccessor", successorBB,
           BBAddSuccessor(blocks[insertPoint], successorBB))

\* setMergeTarget forwarding to the block's setContinueTarget
setMergeTarget_setsContinue(mergeLabel) ==
  EdgeCall("setMergeTarget", mergeLabel,
           BBSetContinueTarget(blocks[insertPoint], mergeLabel))

setMergeTarget(mergeLabel) ==
  EdgeCall("setMergeTarget", mergeLabel,
           BBSetMergeTarget(blocks[insertPoint], mergeLabel))

setContinueTarget(continueLabel) ==
  EdgeCall("setContinueTarget", continueLabel,
           BBSetContinueTarget(blocks[insertPoint], continueLabel))

\* ---------------------------------------------------------- control flow
LoopMerge(mergeBB, continueBB, loopControl) ==
  Inst("SpirvLoopMerge", "OpLoopMerge", "void", <<mergeBB, continueBB, loopControl>>)

SelectionMerge(mergeBB, selectionControl) ==
  Inst("SpirvSelectionMerge", "OpSelectionMerge", "void",
       <<mergeBB, selectionControl>>)

RECURSIVE Flatten(_)
\* llvm::ArrayRef<std::pair<uint32_t, SpirvBasicBlock *>> as literal, block, ..
Flatten(target) ==
  IF target = <<>> THEN <<>>
  ELSE <<Head(target)[1], Head(target)[2]>> \o Flatten(Tail(target))

\* createSwitch adding the switch ahead of its merge marker
SwitchNodes_switchFirst(mergeLabel, selector, defaultLabel, target) ==
  << Inst("SpirvSwitch", "OpSwitch", "void",
          <<selector, defaultLabel>> \o Flatten(target)),
     SelectionMerge(mergeLabel, 0) >>

\* the nodes createSwitch allocates and adds, in order; the selection control
\* is spv::SelectionControlMask::MaskNone (0)
SwitchNodes(mergeLabel, selector, defaultLabel, target) ==
  << SelectionMerge(mergeLabel, 0),
     Inst("SpirvSwitch", "OpSwitch", "void",
          <<selector, defaultLabel>> \o Flatten(target)) >>

createSwitch(mergeLabel, selector, defaultLabel, target) ==
  Emit("createSwitch", <<mergeLabel, selector, defaultLabel>> \o Flatten(target),
       SwitchNodes(mergeLabel, selector, defaultLabel, target), {}, {}, 0)

createKill ==
  Emit("createKill", <<>>, <<Inst("SpirvKill", "OpKill", "void", <<>>)>>, {}, {}, 0)

\* createBranch with the test written mergeBB || continueBB
BranchNodes_either(targetLabel, mergeBB, continueBB, loopControl) ==
  (IF mergeBB # NoBlock \/ continueBB # NoBlock
   THEN <<LoopMerge(mergeBB, continueBB, loopControl)>>
   ELSE <<>>)
  \o <<Inst("SpirvBranch", "OpBranch", "void", <<targetLabel>>)>>

\* the nodes createBranch allocates and adds, in order
BranchNodes(targetLabel, mergeBB, continueBB, loopControl) ==
  (IF mergeBB # NoBlock /\ continueBB # NoBlock
   THEN <<LoopMerge(mergeBB, continueBB, loopControl)>>
   ELSE <<>>)
  \o <<Inst("SpirvBranch", "OpBranch", "void", <<targetLabel>>)>>

createBranch(targetLabel, mergeBB, continueBB, loopControl) ==
  Emit("createBranch", <<targetLabel, mergeBB, continueBB, loopControl>>,
       BranchNodes(targetLabel, mergeBB, continueBB, loopControl), {}, {}, 0)

\* createConditionalBranch testing continueLabel ahead of mergeLabel
ConditionalBranchNodes_continueFirst(condition, trueLabel, falseLabel, mergeLabel, continueLabel, selectionControl, loopControl) ==
  (IF continueLabel # NoBlock
   THEN <<LoopMerge(mergeLabel, continueLabel, loopControl)>>
   ELSE IF mergeLabel # NoBlock
        THEN <<SelectionMerge(mergeLabel, selectionControl)>>
        ELSE <<>>)
  \o <<Inst("SpirvBranchConditional", "OpBranchConditional", "void",
            <<condition, trueLabel, falseLabel>>)>>

\* the nodes createConditionalBranch allocates and adds, in order
ConditionalBranchNodes(condition, trueLabel, falseLabel, mergeLabel, continueLabel, selectionControl, loopControl) ==
  (IF mergeLabel # NoBlock
   THEN IF continueLabel # NoBlock
        THEN <<LoopMerge(mergeLabel, continueLabel, loopControl)>>
        ELSE <<SelectionMerge(mergeLabel, selectionControl)>>
   ELSE <<>>)
  \o <<Inst("SpirvBranchConditional", "OpBranchConditional", "void",
            <<condition, trueLabel, falseLabel>>)>>

createConditionalBranch(condition, trueLabel, falseLabel, mergeLabel, continueLabel, selectionControl, loopControl) ==
  Emit("createConditionalBranch",
       <<condition, trueLabel, falseLabel, mergeLabel, continueLabel,
         selectionControl, loopControl>>,
       ConditionalBranchNodes(condition, trueLabel, falseLabel, mergeLabel,
                              continueLabel, selectionControl, loopControl),
       {}, {}, 0)

createReturn ==
  Emit("createReturn", <<>>,
       <<Inst("SpirvReturn", "OpReturn", "void", <<>>)>>, {}, {}, 0)

createReturnValue(value) ==
  Emit("createReturnValue", <<value>>,
       <<Inst("SpirvReturn", "OpReturnValue", "void", <<value>>)>>, {}, {}, 0)

\* --------------------------------------------------------- image operands
\* spv::ImageOperandsMask, from least significant bit to most significant bit
BiasBit == 1
LodBit == 2
GradBit == 4
ConstOffsetBit == 8
OffsetBit == 16
ConstOffsetsBit == 32
SampleBit == 64
MinLodBit == 128

\* mask | bit, for bit a power of two
BitOr(mask, bit) == IF (mask \div bit) % 2 = 1 THEN mask ELSE mask + bit

\* composeImageOperandsMask testing grad.first || grad.second
composeImageOperandsMask_gradEither(bias, lod, gradFirst, gradSecond, constOffset, varOffset, constOffsets, sample, minLod) ==
  LET m0 == 0
      m1 == IF bias # NoInst THEN BitOr(m0, BiasBit) ELSE m0
      m2 == IF lod # NoInst THEN BitOr(m1, LodBit) ELSE m1
      m3 == IF gradFirst # NoInst \/ gradSecond # NoInst
            THEN BitOr(m2, GradBit) ELSE m2
      m4 == IF constOffset # NoInst THEN BitOr(m3, ConstOffsetBit) ELSE m3
      m5 == IF varOffset # NoInst THEN BitOr(m4, OffsetBit) ELSE m4
      c5 == IF varOffset # NoInst
            THEN requireCapability({}, "ImageGatherExtended") ELSE {}
      m6 == IF constOffsets # NoInst THEN BitOr(m5, ConstOffsetsBit) ELSE m5
      c6 == IF constOffsets # NoInst
            THEN requireCapability(c5, "ImageGatherExtended") ELSE c5
      m7 == IF sample # NoInst THEN BitOr(m6, SampleBit) ELSE m6
      c8 == IF minLod # NoInst THEN requireCapability(c6, "MinLod") ELSE c6
      m8 == IF minLod # NoInst THEN BitOr(m7, MinLodBit) ELSE m7
  IN  [mask |-> m8, caps |-> c8]

\* composeImageOperandsMask without the requireCapability of the constOffsets
\* branch
composeImageOperandsMask_constOffsetsNoCap(bias, lod, gradFirst, gradSecond, constOffset, varOffset, constOffsets, sample, minLod) ==
  LET m0 == 0
      m1 == IF bias # NoInst THEN BitOr(m0, BiasBit) ELSE m0
      m2 == IF lod # NoInst THEN BitOr(m1, LodBit) ELSE m1
      m3 == IF gradFirst # NoInst /\ gradSecond # NoInst
            THEN BitOr(m2, GradBit) ELSE m2
      m4 == IF constOffset # NoInst THEN BitOr(m3, ConstOffsetBit) ELSE m3
      m5 == IF varOffset # NoInst THEN BitOr(m4, OffsetBit) ELSE m4
      c5 == IF varOffset # NoInst
            THEN requireCapability({}, "ImageGatherExtended") ELSE {}
      m6 == IF constOffsets # NoInst THEN BitOr(m5, ConstOffsetsBit) ELSE m5
      c6 == c5
      m7 == IF sample # NoInst THEN BitOr(m6, SampleBit) ELSE m6
      c8 == IF minLod # NoInst THEN requireCapability(c6, "MinLod") ELSE c6
      m8 == IF minLod # NoInst THEN BitOr(m7, MinLodBit) ELSE m7
  IN  [mask |-> m8, caps |-> c8]

\* The mask returned, and the capabilities required on the way.
composeImageOperandsMask(bias, lod, gradFirst, gradSecond, constOffset, varOffset, constOffsets, sample, minLod) ==
  LET m0 == 0
      m1 == IF bias # NoInst THEN BitOr(m0, BiasBit) ELSE m0
      m2 == IF lod # NoInst THEN BitOr(m1, LodBit) ELSE m1
      m3 == IF gradFirst # NoInst /\ gradSecond # NoInst
            THEN BitOr(m2, GradBit) ELSE m2
      m4 == IF constOffset # NoInst THEN BitOr(m3, ConstOffsetBit) ELSE m3
      m5 == IF varOffset # NoInst THEN BitOr(m4, OffsetBit) ELSE m4
      c5 == IF varOffset # NoInst
            THEN requireCapability({}, "ImageGatherExtended") ELSE {}
      m6 == IF constOffsets # NoInst THEN BitOr(m5, ConstOffsetsBit) ELSE m5
      c6 == IF constOffsets # NoInst
            THEN requireCapability(c5, "ImageGatherExtended") ELSE c5
      m7 == IF sample # NoInst THEN BitOr(m6, SampleBit) ELSE m6
      c8 == IF minLod # NoInst THEN requireCapability(c6, "MinLod") ELSE c6
      m8 == IF minLod # NoInst THEN BitOr(m7, MinLodBit) ELSE m7
  IN  [mask |-> m8, caps |-> c8]

\* A call of composeImageOperandsMask by itself: the mask is returned and the
\* capabilities it requires join the module's set; nothing else is touched.
callComposeImageOperandsMask(bias, lod, gradFirst, gradSecond, constOffset, varOffset, constOffsets, sample, minLod) ==
  LET composed == composeImageOperandsMask(bias, lod, gradFirst, gradSecond,
                    constOffset, varOffset, constOffsets, sample, minLod)
  IN  /\ aborted = "none"
      /\ capabilities' = capabilities \cup composed.caps
      /\ lastOp' = Call("composeImageOperandsMask",
                        <<bias, lod, gradFirst, gradSecond, constOffset,
                          varOffset, constOffsets, sample, minLod>>,
                        "ok", composed.mask)
      /\ UNCHANGED <<function, insertPoint, basicBlocks, modFunctions, fns,
                     blocks, nNodes, aborted>>

\* The capability of a storage image's type, resolved by the type translator.
getCapabilityForStorageImageReadWrite(imageType) ==
  IF imageType = "RWTexture2D<float2>"
  THEN "StorageImageExtendedFormats"
  ELSE "StorageImageReadWithoutFormat"

\* the operands of a SpirvImageOp in the constructor's order
ImageOp(op, ty, image, coordinate, mask, dref, bias, lod, gradDx, gradDy, constOffset, varOffset, constOffsets, sample, minLod, component, texel) ==
  Inst("SpirvImageOp", op, ty,
       <<image, coordinate, mask, dref, bias, lod, gradDx, gradDy, constOffset,
         varOffset, constOffsets, sample, minLod, component, texel>>)

\* the sparse unwrap storing the texel field instead of the status
SparseUnwrap_storesTexel(texelType, inst, residencyCode) ==
  << Inst("SpirvCompositeExtract", "OpCompositeExtract", "uint", <<inst, 0>>),
     Inst("SpirvStore", "OpStore", "void", <<residencyCode, inst + 3>>),
     Inst("SpirvCompositeExtract", "OpCompositeExtract", texelType, <<inst, 1>>) >>

\* The three calls that follow a sparse image instruction (stamp inst):
\* createCompositeExtract(UnsignedIntTy, inst, {0}); createStore(residencyCode,
\* status); createCompositeExtract(texelType, inst, {1}).
SparseUnwrap(texelType, inst, residencyCode) ==
  << Inst("SpirvCompositeExtract", "OpCompositeExtract", "uint", <<inst, 0>>),
     Inst("SpirvStore", "OpStore", "void", <<residencyCode, inst + 1>>),
     Inst("SpirvCompositeExtract", "OpCompositeExtract", texelType, <<inst, 1>>) >>

\* createImageSample's opcode with isExplicit computed from lod alone
ImageSampleOp_lodOnly(compareVal, lod, gradFirst, gradSecond, residencyCode) ==
  LET isExplicit == lod # NoInst
      isSparse == residencyCode # NoInst
  IN  IF compareVal # NoInst
      THEN IF isExplicit
           THEN (IF isSparse THEN "OpImageSparseSampleDrefExplicitLod"
                             ELSE "OpImageSampleDrefExplicitLod")
           ELSE (IF isSparse THEN "OpImageSparseSampleDrefImplicitLod"
                             ELSE "OpImageSampleDrefImplicitLod")
      ELSE IF isExplicit
           THEN (IF isSparse THEN "OpImageSparseSampleExplicitLod"
                             ELSE "OpImageSampleExplicitLod")
           ELSE (IF isSparse THEN "OpImageSparseSampleImplicitLod"
                             ELSE "OpImageSampleImplicitLod")

\* createImageSample's opcode with isExplicit true for a lone gradient too
ImageSampleOp_gradEither(compareVal, lod, gradFirst, gradSecond, residencyCode) ==
  LET isExplicit == lod # NoInst \/ gradFirst # NoInst \/ gradSecond # NoInst
      isSparse == residencyCode # NoInst
  IN  IF compareVal # NoInst
      THEN IF isExplicit
           THEN (IF isSparse THEN "OpImageSparseSampleDrefExplicitLod"
                             ELSE "OpImageSampleDrefExplicitLod")
           ELSE (IF isSparse THEN "OpImageSparseSampleDrefImplicitLod"
                             ELSE "OpImageSampleDrefImplicitLod")
      ELSE IF isExplicit
           THEN (IF isSparse THEN "OpImageSparseSampleExplicitLod"
                             ELSE "OpImageSampleExplicitLod")
           ELSE (IF isSparse THEN "OpImageSparseSampleImplicitLod"
                             ELSE "OpImageSampleImplicitLod")

\* the opcode createImageSample chooses
ImageSampleOp(compareVal, lod, gradFirst, gradSecond, residencyCode) ==
  LET isExplicit == lod # NoInst \/ (gradFirst # NoInst /\ gradSecond # NoInst)
      isSparse == residencyCode # NoInst
  IN  IF compareVal # NoInst
      THEN IF isExplicit
           THEN (IF isSparse THEN "OpImageSparseSampleDrefExplicitLod"
                             ELSE "OpImageSampleDrefExplicitLod")
           ELSE (IF isSparse THEN "OpImageSparseSampleDrefImplicitLod"
                             ELSE "OpImageSampleDrefImplicitLod")
      ELSE IF isExplicit
           THEN (IF isSparse THEN "OpImageSparseSampleExplicitLod"
                             ELSE "OpImageSampleExplicitLod")
           ELSE (IF isSparse THEN "OpImageSparseSampleImplicitLod"
                             ELSE "OpImageSampleImplicitLod")

\* createImageSample without the assert on lod and minLod
createImageSample_noLodCheck(texelType, imageType, image, sampler, isNonUniform, coordinate, compareVal, bias, lod, gradFirst, gradSecond, constOffset, varOffset, constOffsets, sample, minLod, residencyCode) ==
  LET args == <<image, sampler, isNonUniform, coordinate, compareVal, bias, lod,
                gradFirst, gradSecond, constOffset, varOffset, constOffsets,
                sample, minLod, residencyCode>>
      isSparse == residencyCode # NoInst
      op == ImageSampleOp(compareVal, lod, gradFirst, gradSecond, residencyCode)
      sparseCaps == IF isSparse
                    THEN requireCapability({}, "SparseResidency") ELSE {}
      composed == composeImageOperandsMask(bias, lod, gradFirst, gradSecond,
                    constOffset, varOffset, constOffsets, sample, minLod)
      sampledImage == Inst("SpirvSampledImage", "OpSampledImage", imageType,
                           <<image, sampler>>)
      imageSampleInst ==
        ImageOp(op, texelType, nNodes + 1, coordinate, composed.mask, compareVal,
                bias, lod, gradFirst, gradSecond, constOffset, varOffset,
                constOffsets, sample, minLod, NoInst, NoInst)
  IN  /\ aborted = "none"
      /\ IF FALSE
         THEN Abort("lod == nullptr || minLod == nullptr", "createImageSample", args)
         ELSE Emit("createImageSample", args,
                   <<sampledImage, imageSampleInst>>
                     \o (IF isSparse
                         THEN SparseUnwrap(texelType, nNodes + 2, residencyCode)
                         ELSE <<>>),
                   sparseCaps, sparseCaps \cup composed.caps,
                   IF isSparse THEN 5 ELSE 2)

createImageSample(texelType, imageType, image, sampler, isNonUniform, coordinate, compareVal, bias, lod, gradFirst, gradSecond, constOffset, varOffset, constOffsets, sample, minLod, residencyCode) ==
  LET args == <<image, sampler, isNonUniform, coordinate, compareVal, bias, lod,
                gradFirst, gradSecond, constOffset, varOffset, constOffsets,
                sample, minLod, residencyCode>>
      isSparse == residencyCode # NoInst
      op == ImageSampleOp(compareVal, lod, gradFirst, gradSecond, residencyCode)
      sparseCaps == IF isSparse
                    THEN requireCapability({}, "SparseResidency") ELSE {}
      composed == composeImageOperandsMask(bias, lod, gradFirst, gradSecond,
                    constOffset, varOffset, constOffsets, sample, minLod)
      sampledImage == Inst("SpirvSampledImage", "OpSampledImage", imageType,
                           <<image, sampler>>)
      imageSampleInst ==
        ImageOp(op, texelType, nNodes + 1, coordinate, composed.mask, compareVal,
                bias, lod, gradFirst, gradSecond, constOffset, varOffset,
                constOffsets, sample, minLod, NoInst, NoInst)
  IN  /\ aborted = "none"
      /\ IF insertPoint # NoBlock /\ ~(lod = NoInst \/ minLod = NoInst)
         THEN Abort("lod == nullptr || minLod == nullptr", "createImageSample", args)
         ELSE Emit("createImageSample", args,
                   <<sampledImage, imageSampleInst>>
                     \o (IF isSparse
                         THEN SparseUnwrap(texelType, nNodes + 2, residencyCode)
                         ELSE <<>>),
                   sparseCaps, sparseCaps \cup composed.caps,
                   IF isSparse THEN 5 ELSE 2)

\* createImageFetchOrRead with the two arms of the opcode choice exchanged
createImageFetchOrRead_opsSwapped(doImageFetch, texelType, imageType, image, coordinate, lod, constOffset, varOffset, constOffsets, sample, residencyCode) ==
  LET args == <<IF doImageFetch THEN 1 ELSE 0, image, coordinate, lod,
                constOffset, varOffset, constOffsets, sample, residencyCode,
                imageType>>
      composed == composeImageOperandsMask(NoInst, lod, NoInst, NoInst,
                    constOffset, varOffset, constOffsets, sample, NoInst)
      isSparse == residencyCode # NoInst
      sparseCaps == IF isSparse
                    THEN requireCapability(composed.caps, "SparseResidency")
                    ELSE composed.caps
      op == IF doImageFetch
            THEN (IF isSparse THEN "OpImageSparseRead" ELSE "OpImageRead")
            ELSE (IF isSparse THEN "OpImageSparseFetch" ELSE "OpImageFetch")
      caps == IF ~doImageFetch
              THEN requireCapability(sparseCaps,
                     getCapabilityForStorageImageReadWrite(imageType))
              ELSE sparseCaps
      fetchOrReadInst ==
        ImageOp(op, texelType, image, coordinate, composed.mask, NoInst, NoInst,
                lod, NoInst, NoInst, constOffset, varOffset, constOffsets, sample,
                NoInst, NoInst, NoInst)
  IN  Emit("createImageFetchOrRead", args,
           <<fetchOrReadInst>>
             \o (IF isSparse
                 THEN SparseUnwrap(texelType, nNodes + 1, residencyCode)
                 ELSE <<>>),
           caps, caps, IF isSparse THEN 4 ELSE 1)

\* createImageFetchOrRead requiring the storage-image capability when fetching
createImageFetchOrRead_capOnFetch(doImageFetch, texelType, imageType, image, coordinate, lod, constOffset, varOffset, constOffsets, sample, residencyCode) ==
  LET args == <<IF doImageFetch THEN 1 ELSE 0, image, coordinate, lod,
                constOffset, varOffset, constOffsets, sample, residencyCode,
                imageType>>
      composed == composeImageOperandsMask(NoInst, lod, NoInst, NoInst,
                    constOffset, varOffset, constOffsets, sample, NoInst)
      isSparse == residencyCode # NoInst
      sparseCaps == IF isSparse
                    THEN requireCapability(composed.caps, "SparseResidency")
                    ELSE composed.caps
      op == IF doImageFetch
            THEN (IF isSparse THEN "OpImageSparseFetch" ELSE "OpImageFetch")
            ELSE (IF isSparse THEN "OpImageSparseRead" ELSE "OpImageRead")
      caps == IF doImageFetch
              THEN requireCapability(sparseCaps,
                     getCapabilityForStorageImageReadWrite(imageType))
              ELSE sparseCaps
      fetchOrReadInst ==
        ImageOp(op, texelType, image, coordinate, composed.mask, NoInst, NoInst,
                lod, NoInst, NoInst, constOffset, varOffset, constOffsets, sample,
                NoInst, NoInst, NoInst)
  IN  Emit("createImageFetchOrRead", args,
           <<fetchOrReadInst>>
             \o (IF isSparse
                 THEN SparseUnwrap(texelType, nNodes + 1, residencyCode)
                 ELSE <<>>),
           caps, caps, IF isSparse THEN 4 ELSE 1)

createImageFetchOrRead(doImageFetch, texelType, imageType, image, coordinate, lod, constOffset, varOffset, constOffsets, sample, residencyCode) ==
  LET args == <<IF doImageFetch THEN 1 ELSE 0, image, coordinate, lod,
                constOffset, varOffset, constOffsets, sample, residencyCode,
                imageType>>
      composed == composeImageOperandsMask(NoInst, lod, NoInst, NoInst,
                    constOffset, varOffset, constOffsets, sample, NoInst)
      isSparse == residencyCode # NoInst
      sparseCaps == IF isSparse
                    THEN requireCapability(composed.caps, "SparseResidency")
                    ELSE composed.caps
      op == IF doImageFetch
            THEN (IF isSparse THEN "OpImageSparseFetch" ELSE "OpImageFetch")
            ELSE (IF isSparse THEN "OpImageSparseRead" ELSE "OpImageRead")
      caps == IF ~doImageFetch
              THEN requireCapability(sparseCaps,
                     getCapabilityForStorageImageReadWrite(imageType))
              ELSE sparseCaps
      fetchOrReadInst ==
        ImageOp(op, texelType, image, coordinate, composed.mask, NoInst, NoInst,
                lod, NoInst, NoInst, constOffset, varOffset, constOffsets, sample,
                NoInst, NoInst, NoInst)
  IN  Emit("createImageFetchOrRead", args,
           <<fetchOrReadInst>>
             \o (IF isSparse
                 THEN SparseUnwrap(texelType, nNodes + 1, residencyCode)
                 ELSE <<>>),
           caps, caps, IF isSparse THEN 4 ELSE 1)

\* the mask is spv::ImageOperandsMask::MaskNone (0)
createImageWrite(imageType, image, coord, texel) ==
  LET caps == requireCapability({},
                getCapabilityForStorageImageReadWrite(imageType))
  IN  Emit("createImageWrite", <<image, coord, texel, imageType>>,
           <<ImageOp("OpImageWrite", imageType, image, coord, 0, NoInst, NoInst,
                     NoInst, NoInst, NoInst, NoInst, NoInst, NoInst, NoInst,
                     NoInst, NoInst, texel)>>,
           caps, caps, 0)

\* createImageGather's opcode with the tests on compareVal and residencyCode
\* exchanged
ImageGatherOp_testsSwapped(compareVal, residencyCode) ==
  IF residencyCode # NoInst
  THEN (IF compareVal # NoInst THEN "OpImageSparseDrefGather"
                               ELSE "OpImageDrefGather")
  ELSE (IF compareVal # NoInst THEN "OpImageSparseGather"
                               ELSE "OpImageGather")

\* the opcode createImageGather chooses
ImageGatherOp(compareVal, residencyCode) ==
  IF compareVal # NoInst
  THEN (IF residencyCode # NoInst THEN "OpImageSparseDrefGather"
                                  ELSE "OpImageDrefGather")
  ELSE (IF residencyCode # NoInst THEN "OpImageSparseGather"
                                  ELSE "OpImageGather")

createImageGather(texelType, imageType, image, sampler, isNonUniform, coordinate, component, compareVal, constOffset, varOffset, constOffsets, sample, residencyCode) ==
  LET args == <<image, sampler, isNonUniform, coordinate, component,
                compareVal, constOffset, varOffset, constOffsets, sample,
                residencyCode>>
      isSparse == residencyCode # NoInst
      sparseCaps == IF isSparse
                    THEN requireCapability({}, "SparseResidency") ELSE {}
      sampledImage == Inst("SpirvSampledImage", "OpSampledImage", imageType,
                           <<image, sampler>>)
      composed == composeImageOperandsMask(NoInst, NoInst, NoInst, NoInst,
                    constOffset, varOffset, constOffsets, sample, NoInst)
      imageInstruction ==
        ImageOp(ImageGatherOp(compareVal, residencyCode), texelType, nNodes + 1,
                coordinate, composed.mask, compareVal, NoInst, NoInst, NoInst,
                NoInst, constOffset, varOffset, constOffsets, sample, NoInst,
                component, NoInst)
  IN  Emit("createImageGather", args,
           <<sampledImage, imageInstruction>>
             \o (IF isSparse
                 THEN SparseUnwrap(texelType, nNodes + 2, residencyCode)
                 ELSE <<>>),
           sparseCaps, sparseCaps \cup composed.caps,
           IF isSparse THEN 5 ELSE 2)

\* ----------------------------------------------------------------- Spec
Init ==
  /\ function = NoFn
  /\ insertPoint \in {NoBlock, Wild}
  /\ basicBlocks = <<>>
  /\ modFunctions = <<>>
  /\ capabilities = {}
  /\ fns = <<>>
  /\ blocks = <<>>
  /\ nNodes = 0
  /\ aborted = "none"
  /\ lastOp = Call("SpirvBuilder", <<>>, "ok", 0)

Next ==
  \/ \E t \in Types, n \in Names : beginFunction(t, n)
  \/ \E t \in Types, n \in Names : addFnParam(t, n)
  \/ \E t \in Types, n \in Names, i \in {NoInst} : addFnVar(t, n, i)
  \/ \E n \in Names : createBasicBlock(n)
  \/ \E bb \in BlockArgs : setInsertPoint(bb)
  \/ endFunction
  \/ \E t \in Types, p \in Operands : createLoad(t, p)

Spec == Init /\ [][Next]_vars

\* ------------------------------------------------------------- SpecEmit
\* Every instruction constructor, called once in every state that the
\* lifecycle operations and up to MaxFill loads reach: the run is followed up
\* to the first call that places an instruction other than a load (Fresh).
RECURSIVE CountOther(_)
CountOther(insts) ==
  IF insts = <<>> THEN 0
  ELSE (IF Head(insts).op = "OpLoad" THEN 0 ELSE 1) + CountOther(Tail(insts))

RECURSIVE SumOther(_)
SumOther(n) == IF n = 0 THEN 0 ELSE CountOther(blocks[n].insts) + SumOther(n - 1)

Fresh == aborted = "none" /\ SumOther(Len(blocks)) = 0

FillRoom == nNodes < MaxFill

Present == Operands \cup {NoInst}     \* an optional operand: a handle or nullptr

NextEmit ==
  \/ Fresh /\ \E t \in Types, n \in Names : beginFunction(t, n)
  \/ Fresh /\ \E n \in Names : createBasicBlock(n)
  \/ Fresh /\ \E bb \in BlockArgs : setInsertPoint(bb)
  \/ Fresh /\ endFunction
  \/ Fresh /\ FillRoom /\ \E t \in Types, p \in Operands : createLoad(t, p)
  \/ Fresh /\ \E p \in Operands : createStore(p, p)
  \/ Fresh /\ \E t \in Types, p \in Operands : createCompositeConstruct(t, p, p)
  \/ Fresh /\ \E t \in Types, p \in Operands : createCompositeExtract(t, p, 0)
  \/ Fresh /\ \E t \in Types, p \in Operands : createCompositeInsert(t, p, 0, p)
  \/ Fresh /\ \E t \in Types, p \in Operands : createVectorShuffle(t, p, p, 0)
  \/ Fresh /\ \E t \in Types, p \in Operands : createFunctionCall(t, 1, p)
  \/ Fresh /\ \E t \in Types, p \in Operands : createAccessChain(t, p, p)
  \/ Fresh /\ \E op \in {"OpSNegate", "OpImageQuerySize"}, t \in Types,
                     p \in Operands : createUnaryOp(op, t, p)
  \/ Fresh /\ \E op \in {"OpIAdd", "OpImageQueryLod"}, t \in Types,
                     p \in Operands : createBinaryOp(op, t, p, p)
  \/ Fresh /\ \E t \in Types, p \in Operands :
                     createSpecConstantBinaryOp("OpIAdd", t, p, p)
  \/ Fresh /\ \E t \in Types :
                     createGroupNonUniformElect("OpGroupNonUniformElect", t, 3)
  \/ Fresh /\ \E t \in Types, p \in Operands :
                     createGroupNonUniformUnaryOp("OpGroupNonUniformAll", t, 3, p, 0)
  \/ Fresh /\ \E t \in Types, p \in Operands :
                     createGroupNonUniformBinaryOp("OpGroupNonUniformBroadcast",
                                                   t, 3, p, p)
  \/ Fresh /\ \E t \in Types, p \in Operands :
                     createAtomicOp("OpAtomicIAdd", t, p, 1, 0, p)
  \/ Fresh /\ \E t \in Types, p \in Operands :
                     createAtomicCompareExchange(t, p, 1, 0, 0, p, p)
  \/ Fresh /\ \E t \in Types, p \in Operands, q \in Present :
                     createImageTexelPointer(t, p, p, q)
  \/ Fresh /\ \E p \in Operands : createImageSparseTexelsResident(p)
  \/ Fresh /\ \E t \in Types, p \in Operands : createSelect(t, p, p, p)
  \/ Fresh /\ \E t \in Types, p \in Operands : createExtInst(t, p, 1, p)
  \/ Fresh /\ createBarrier(1, 0, 0)
  \/ Fresh /\ \E t \in Types, p \in Operands : createBitFieldInsert(t, p, p, p, p)
  \/ Fresh /\ \E t \in Types, p \in Operands, sg \in {0, 1} :
                     createBitFieldExtract(t, p, p, p, sg)
  \/ Fresh /\ createKill
  \/ Fresh /\ createReturn
  \/ Fresh /\ \E p \in Operands : createReturnValue(p)
  \/ Fresh /\ \E m \in {NoBlock, 1} : createBranch(1, m, m, 0)
  \/ Fresh /\ \E p \in Operands, m \in {NoBlock, 1} :
                     createConditionalBranch(p, 1, 1, m, NoBlock, 0, 0)
  \/ Fresh /\ \E p \in Operands : createSwitch(1, p, 1, <<<<7, 1>>>>)
  \/ Fresh /\ \E t \in Types, p \in Operands, r \in Present :
                     createImageSample(t, "Texture2D", p, p, 0, p, NoInst, NoInst,
                                       NoInst, NoInst, NoInst, NoInst, NoInst,
                                       NoInst, NoInst, NoInst, r)
  \/ Fresh /\ \E f \in BOOLEAN, t \in Types, p \in Operands :
                     createImageFetchOrRead(f, t, "RWTexture2D<float2>", p, p,
                                            NoInst, NoInst, NoInst, NoInst,
                                            NoInst, NoInst)
  \/ Fresh /\ \E p \in Operands : createImageWrite("RWTexture2D<float4>", p, p, p)
  \/ Fresh /\ \E t \in Types, p \in Operands, c \in Present :
                     createImageGather(t, "Texture2D", p, p, 0, p, p, c, NoInst,
                                       NoInst, NoInst, NoInst, NoInst)
  \/ Fresh /\ createEmitVertex
  \/ Fresh /\ createEndPrimitive

SpecEmit == Init /\ [][NextEmit]_vars

\* --------------------------------------------------------------- SpecCF
\* The control-flow constructors and the edge mutators over one open
\* function, each called in every state that beginFunction, createBasicBlock,
\* setInsertPoint, up to MaxFill loads and up to MaxEdges edges reach.
RECURSIVE SumEdges(_)
SumEdges(n) ==
  IF n = 0 THEN 0
  ELSE Cardinality(blocks[n].succ)
       + (IF blocks[n].merge # NoBlock THEN 1 ELSE 0)
       + (IF blocks[n].cont # NoBlock THEN 1 ELSE 0)
       + SumEdges(n - 1)

EdgeRoom == SumEdges(Len(blocks)) < MaxEdges

\* labels the caller passes: the first two blocks it has created
Labels == BlockIds \cap {1, 2}
MergeLabels == (BlockIds \cap {1}) \cup {NoBlock}
ContinueLabels == (BlockIds \cap {2}) \cup {NoBlock}
\* (literal, label) lists for a switch
SwitchTargets ==
  {<<>>} \cup {<<<<7, b>>>> : b \in Labels}
         \cup {<<<<7, b>>, <<8, 1>>>> : b \in Labels}

NextCF ==
  \/ Fresh /\ \E t \in Types, n \in Names : beginFunction(t, n)
  \/ Fresh /\ \E n \in Names : createBasicBlock(n)
  \/ Fresh /\ \E bb \in BlockArgs : setInsertPoint(bb)
  \/ Fresh /\ FillRoom /\ \E t \in Types, p \in Operands : createLoad(t, p)
  \/ Fresh /\ EdgeRoom /\ \E bb \in Labels \cup {NoBlock} : addSuccessor(bb)
  \/ Fresh /\ EdgeRoom /\ \E bb \in Labels \cup {NoBlock} : setMergeTarget(bb)
  \/ Fresh /\ EdgeRoom /\ \E bb \in Labels \cup {NoBlock} : setContinueTarget(bb)
  \/ Fresh /\ \E b \in Labels, m \in MergeLabels, c \in ContinueLabels :
                 createBranch(b, m, c, 2)
  \/ Fresh /\ \E p \in Operands, b \in Labels, m \in MergeLabels,
                 c \in ContinueLabels :
                 createConditionalBranch(p, 1, b, m, c, 1, 2)
  \/ Fresh /\ \E p \in Operands, m \in Labels, tg \in SwitchTargets :
                 createSwitch(m, p, 1, tg)
  \/ Fresh /\ createKill
  \/ Fresh /\ createReturn
  \/ Fresh /\ \E p \in Operands : createReturnValue(p)

SpecCF == Init /\ [][NextCF]_vars

\* ================================================================ claims
OK(name) == lastOp'.name = name /\ lastOp'.res = "ok"

\* ------------------------------------------------------------------- C1
\* C1: beginFunction with a function open, and addFnParam, addFnVar,
\* createBasicBlock and endFunction with no function open, each end in the
\* assertion failure and leave the active function, every function's lists,
\* the pending list, the cursor, the module's functions, the capability set
\* and the arena as they were.
C1_WrongStateAborts ==
  [][ /\ (lastOp'.name = "beginFunction" /\ function # NoFn)
         => (lastOp'.res = "abort" /\ aborted' = "found nested function"
             /\ UNCHANGED built)
      /\ (lastOp'.name \in {"addFnParam", "addFnVar", "createBasicBlock",
                            "endFunction"} /\ function = NoFn)
         => (lastOp'.res = "abort" /\ aborted' # "none" /\ UNCHANGED built)
    ]_vars

\* createBasicBlock has failed with no function open, after a function with
\* a block was closed
C1_Witness ==
  /\ lastOp.name = "createBasicBlock" /\ lastOp.res = "abort"
  /\ aborted = "found detached basic block"
  /\ modFunctions # <<>> /\ blocks # <<>>

\* ------------------------------------------------------------------- C3
\* C3: a successful endFunction appends the pending blocks, in the order of
\* the pending list, to the active function's blocks, empties the pending
\* list, appends the function to the module's functions, and unsets the active
\* function and the cursor; the pending list holds the blocks in the order
\* createBasicBlock made them, and the module holds the closed functions in
\* closing order.
Ascending(seq) == \A i, j \in 1..Len(seq) : i < j => seq[i] < seq[j]

C3_EndFunctionAttaches ==
  /\ [][ /\ OK("endFunction")
            => /\ fns'[function].blocks = fns[function].blocks \o basicBlocks
               /\ \A f \in FnIds : f # function => fns'[f] = fns[f]
               /\ fns'[function].params = fns[function].params
               /\ fns'[function].vars = fns[function].vars
               /\ basicBlocks' = <<>>
               /\ modFunctions' = Append(modFunctions, function)
               /\ function' = NoFn
               /\ insertPoint' = NoBlock
         /\ OK("createBasicBlock")
            => basicBlocks' = Append(basicBlocks, Len(blocks) + 1)
         /\ (lastOp'.name \notin {"endFunction", "createBasicBlock"})
            => UNCHANGED <<basicBlocks, modFunctions>>
       ]_vars
  /\ [](/\ Ascending(basicBlocks)
        /\ modFunctions = [i \in 1..Len(modFunctions) |-> i]
        /\ \A f \in FnIds : Ascending(fns[f].blocks))

\* the second function has been closed, and a closed function holds two blocks
C3_Witness ==
  /\ lastOp.name = "endFunction" /\ lastOp.res = "ok"
  /\ Len(modFunctions) = 2
  /\ \E f \in FnIds : Len(fns[f].blocks) = 2

\* ------------------------------------------------------------------- C2
\* the constructors that place instructions
StraightNames ==
  {"createLoad", "createStore", "createCompositeConstruct",
   "createCompositeExtract", "createCompositeInsert", "createVectorShuffle",
   "createAccessChain", "createFunctionCall", "createUnaryOp",
   "createBinaryOp", "createSpecConstantBinaryOp", "createSelect",
   "createGroupNonUniformElect", "createGroupNonUniformUnaryOp",
   "createGroupNonUniformBinaryOp", "createAtomicOp",
   "createAtomicCompareExchange", "createImageTexelPointer",
   "createBitFieldInsert", "createBitFieldExtract", "createExtInst",
   "createBarrier", "createKill", "createReturn", "createReturnValue"}

EmitterNames ==
  StraightNames \cup
  {"createImageSparseTexelsResident", "createSwitch", "createBranch",
   "createConditionalBranch", "createImageSample", "createImageFetchOrRead",
   "createImageWrite", "createImageGather"}

\* C2: a call of any instruction constructor with the cursor unset ends in
\* the "null insert point" assertion failure: no node is allocated or placed
\* in a block, no capability is added, and the module, the functions, the
\* blocks and the pending list are as they were.
C2_NullInsertPointAborts ==
  [][ (lastOp'.name \in EmitterNames /\ insertPoint = NoBlock)
      => /\ lastOp'.res = "abort"
         /\ aborted' = "null insert point"
         /\ UNCHANGED built ]_vars

\* an image query was called with the cursor unset, after a load was placed
\* in a block of a function that is still open
C2_Witness ==
  /\ lastOp.name = "createUnaryOp" /\ lastOp.res = "abort"
  /\ aborted = "null insert point"
  /\ insertPoint = NoBlock /\ function # NoFn
  /\ \E b \in BlockIds : blocks[b].insts # <<>>

\* ------------------------------------------------------------------- C4
Range(seq) == {seq[i] : i \in 1..Len(seq)}

\* C4: in every state the cursor is unset, or a function is open and the
\* cursor is on a block created under it (a block of its pending list).
\* The indeterminate cursor a fresh builder may hold is left aside: the
\* statement is about the cursor once something has written it.
C4_CursorOnActiveFunction ==
  insertPoint # Wild
  => \/ insertPoint = NoBlock
     \/ function # NoFn /\ insertPoint \in Range(basicBlocks)

\* ------------------------------------------------------------------- C5
\* the blocks attached to the functions the module holds
ClosedBlocks == UNION {Range(fns[modFunctions[i]].blocks) : i \in 1..Len(modFunctions)}

\* C5: no step changes a function the module holds (its parameters,
\* variables, blocks), nor a block attached to one (its instructions and its
\* successor, merge and continue edges).
C5_ClosedFunctionsImmutable ==
  [][ /\ \A i \in 1..Len(modFunctions) :
           fns'[modFunctions[i]] = fns[modFunctions[i]]
      /\ \A b \in ClosedBlocks : blocks'[b] = blocks[b] ]_vars

\* ------------------------------------------------------------------- C6
\* C6: a successful addFnParam appends the new parameter to the active
\* function's parameters and a successful addFnVar appends the new variable to
\* its variables; either leaves the other list, every other function, the
\* pending list and every block as they were, and no other call touches the
\* two lists.  So each list holds its calls in call order (ascending stamps).
Ids(seq) == [i \in 1..Len(seq) |-> seq[i].id]

C6_ParamsVarsInCallOrder ==
  /\ [][ /\ OK("addFnParam")
            => /\ Ids(fns'[function].params)
                    = Append(Ids(fns[function].params), lastOp'.ret)
               /\ SubSeq(fns'[function].params, 1, Len(fns[function].params))
                    = fns[function].params
               /\ fns'[function].vars = fns[function].vars
               /\ fns'[function].blocks = fns[function].blocks
               /\ \A f \in FnIds : f # function => fns'[f] = fns[f]
               /\ UNCHANGED <<basicBlocks, blocks, function>>
         /\ OK("addFnVar")
            => /\ Ids(fns'[function].vars)
                    = Append(Ids(fns[function].vars), lastOp'.ret)
               /\ SubSeq(fns'[function].vars, 1, Len(fns[function].vars))
                    = fns[function].vars
               /\ fns'[function].params = fns[function].params
               /\ fns'[function].blocks = fns[function].blocks
               /\ \A f \in FnIds : f # function => fns'[f] = fns[f]
               /\ UNCHANGED <<basicBlocks, blocks, function>>
         /\ (lastOp'.name \notin {"addFnParam", "addFnVar"})
            => \A f \in FnIds : /\ fns'[f].params = fns[f].params
                                /\ fns'[f].vars = fns[f].vars
       ]_vars
  /\ [](\A f \in FnIds : /\ Ascending(Ids(fns[f].params))
                         /\ Ascending(Ids(fns[f].vars)))

\* a closed function holds a parameter and a variable, the variable added
\* first, and a load was placed between the two calls
C6_Witness ==
  \E i \in 1..Len(modFunctions) :
    LET f == fns[modFunctions[i]]
    IN  /\ Len(f.params) = 1 /\ Len(f.vars) = 1
        /\ f.vars[1].id + 1 < f.params[1].id
        /\ \E b \in Range(f.blocks) :
             \E k \in 1..Len(blocks[b].insts) :
               /\ f.vars[1].id < blocks[b].insts[k].id
               /\ blocks[b].insts[k].id < f.params[1].id

\* ------------------------------------------------------------------- C7
\* what a step appended to the block the cursor was on
Old == blocks[insertPoint].insts
New == blocks'[insertPoint].insts
Appended == SubSeq(New, Len(Old) + 1, Len(New))
\* the step only appended to that block: its earlier instructions, its
\* edges, every other block, the pending list, the functions, the module and
\* the cursor are as they were
AppendOnly ==
  /\ insertPoint \in BlockIds
  /\ Len(blocks') = Len(blocks)
  /\ Len(New) >= Len(Old)
  /\ SubSeq(New, 1, Len(Old)) = Old
  /\ [blocks'[insertPoint] EXCEPT !.insts = Old] = blocks[insertPoint]
  /\ \A b \in BlockIds : b # insertPoint => blocks'[b] = blocks[b]
  /\ UNCHANGED <<basicBlocks, fns, insertPoint, modFunctions, function>>

\* C7: a successful call of a straightforward constructor appends one
\* instruction, a node allocated by the call, at the end of the cursor
\* block; the block's earlier instructions stay as its prefix, and every other
\* block, the pending list, the functions' lists, the cursor and the module's
\* functions are unchanged.
C7_StraightAppendsOne ==
  [][ (lastOp'.name \in StraightNames /\ lastOp'.res = "ok")
      => /\ AppendOnly
         /\ Len(Appended) = 1
         /\ Appended[1].id = nNodes + 1
         /\ nNodes' = nNodes + 1 ]_vars

\* createStore has appended after a load, in the second function's block,
\* with a closed function and its block beside it
C7_Witness ==
  /\ lastOp.name = "createStore" /\ lastOp.res = "ok"
  /\ modFunctions # <<>> /\ Len(blocks) = 2
  /\ insertPoint \in BlockIds
  /\ Len(blocks[insertPoint].insts) = 2
  /\ blocks[insertPoint].insts[1].op = "OpLoad"
  /\ blocks[insertPoint].insts[2].op = "OpStore"

\* ------------------------------------------------------------------- C8
\* opcode and operands of the appended nodes
Shape(nodes) == [i \in 1..Len(nodes) |-> <<nodes[i].op, nodes[i].a>>]

\* C8: a successful createBranch(target, merge, continue, loopControl)
\* appends, when merge and continue are both supplied, a loop merge naming
\* them and loopControl and then the branch to target, and nothing else; with
\* either one absent it appends the branch alone.
C8_BranchMarker ==
  [][ OK("createBranch")
      => LET t == lastOp'.args[1]
             m == lastOp'.args[2]
             c == lastOp'.args[3]
             lc == lastOp'.args[4]
         IN  /\ AppendOnly
             /\ IF m # NoBlock /\ c # NoBlock
                THEN Shape(Appended) = << <<"OpLoopMerge", <<m, c, lc>>>>,
                                          <<"OpBranch", <<t>>>> >>
                ELSE Shape(Appended) = << <<"OpBranch", <<t>>>> >> ]_vars

\* a branch with merge block 1 and continue block 2 was built after a load
C8_Witness ==
  /\ lastOp.name = "createBranch" /\ lastOp.res = "ok"
  /\ lastOp.args[2] = 1 /\ lastOp.args[3] = 2
  /\ insertPoint \in BlockIds
  /\ Shape(blocks[insertPoint].insts)
       = << <<"OpLoad", <<-2>>>>,
            <<"OpLoopMerge", <<1, 2, 2>>>>,
            <<"OpBranch", <<lastOp.args[1]>>>> >>

\* ------------------------------------------------------------------- C9
\* C9: a successful createConditionalBranch appends at most one merge marker
\* and then the conditional branch on trueLabel/falseLabel, which comes last:
\* with mergeLabel and continueLabel a loop merge (merge, continue,
\* loopControl); with mergeLabel alone a selection merge (merge,
\* selectionControl); without mergeLabel no marker.
C9_ConditionalBranchMarker ==
  [][ OK("createConditionalBranch")
      => LET cond == lastOp'.args[1]
             t == lastOp'.args[2]
             f == lastOp'.args[3]
             m == lastOp'.args[4]
             c == lastOp'.args[5]
             sc == lastOp'.args[6]
             lc == lastOp'.args[7]
             br == <<"OpBranchConditional", <<cond, t, f>>>>
         IN  /\ AppendOnly
             /\ Shape(Appended) =
                  IF m = NoBlock THEN <<br>>
                  ELSE IF c # NoBlock
                       THEN << <<"OpLoopMerge", <<m, c, lc>>>>, br >>
                       ELSE << <<"OpSelectionMerge", <<m, sc>>>>, br >> ]_vars

\* a conditional branch between blocks 1 and 2 with merge block 1 and no
\* continue block: a selection merge naming block 1 precedes it
C9_Witness ==
  /\ lastOp.name = "createConditionalBranch" /\ lastOp.res = "ok"
  /\ lastOp.args[4] = 1 /\ lastOp.args[5] = NoBlock
  /\ insertPoint \in BlockIds
  /\ Shape(blocks[insertPoint].insts)
       = << <<"OpSelectionMerge", <<1, 1>>>>,
            <<"OpBranchConditional", <<-2, 1, 2>>>> >>

\* ------------------------------------------------------------------ C10
MergeOps == {"OpSelectionMerge", "OpLoopMerge"}
TerminatorOps == {"OpSwitch", "OpBranch", "OpBranchConditional"}

\* C10: a successful createSwitch appends a selection merge naming
\* mergeLabel and then the switch with the selector, the default label and the
\* (literal, label) pairs in the order given, and nothing else; in every block
\* a merge marker is followed at once by a switch or a branch.
C10_SwitchMarker ==
  /\ [][ OK("createSwitch")
         => LET m == lastOp'.args[1]
                rest == SubSeq(lastOp'.args, 2, Len(lastOp'.args))
            IN  /\ AppendOnly
                /\ Len(Appended) = 2
                /\ Appended[1].op = "OpSelectionMerge"
                /\ Appended[1].a[1] = m
                /\ Appended[2].id = Appended[1].id + 1
                /\ Shape(<<Appended[2]>>) = << <<"OpSwitch", rest>> >> ]_vars
  /\ [](\A b \in BlockIds :
          \A k \in 1..Len(blocks[b].insts) :
            blocks[b].insts[k].op \in MergeOps
            => /\ k < Len(blocks[b].insts)
               /\ blocks[b].insts[k + 1].op \in TerminatorOps)

\* a switch with two cases, merge block 2, was built after a load
C10_Witness ==
  /\ lastOp.name = "createSwitch" /\ lastOp.res = "ok"
  /\ insertPoint \in BlockIds
  /\ Shape(blocks[insertPoint].insts)
       = << <<"OpLoad", <<-2>>>>,
            <<"OpSelectionMerge", <<2, 0>>>>,
            <<"OpSwitch", <<-2, 1, 7, 2, 8, 1>>>> >>

\* ------------------------------------------------------------ SpecImage
\* The image constructors over one open function, each called with every
\* combination of present and absent optional operands in every state that
\* beginFunction, createBasicBlock, setInsertPoint and up to MaxFill loads
\* reach (Defined).
Residency == {-3, NoInst}          \* residencyCode: a location or nullptr
Flag == {0, 1}                     \* bool isNonUniform
SampledTypes == {"Texture2D"}
StorageTypes == {"RWTexture2D<float2>", "RWTexture2D<float4>"}

\* no instruction other than a load has been placed and no call has gone
\* through the indeterminate cursor: what follows undefined behaviour is not
\* followed
Defined == Fresh /\ lastOp.res = "ok"

NextImage ==
  \/ Defined /\ \E t \in Types, n \in Names : beginFunction(t, n)
  \/ Defined /\ \E n \in Names : createBasicBlock(n)
  \/ Defined /\ \E bb \in BlockArgs : setInsertPoint(bb)
  \/ Defined /\ FillRoom /\ \E t \in Types, p \in Operands : createLoad(t, p)
  \/ Defined /\ \E t \in Types, it \in SampledTypes, p \in Operands, nu \in Flag,
                 compareVal \in Present, bias \in Present, lod \in Present,
                 gradFirst \in Present, gradSecond \in Present,
                 constOffset \in Present, varOffset \in Present,
                 constOffsets \in Present, sample \in Present,
                 minLod \in Present, residencyCode \in Residency :
                 createImageSample(t, it, p, -4, nu, -5, compareVal, bias, lod,
                                   gradFirst, gradSecond, constOffset, varOffset,
                                   constOffsets, sample, minLod, residencyCode)
  \/ Defined /\ \E f \in BOOLEAN, t \in Types, it \in StorageTypes,
                 p \in Operands, lod \in Present, constOffset \in Present,
                 varOffset \in Present, constOffsets \in Present,
                 sample \in Present, residencyCode \in Residency :
                 createImageFetchOrRead(f, t, it, p, -5, lod, constOffset,
                                        varOffset, constOffsets, sample,
                                        residencyCode)
  \/ Defined /\ \E it \in StorageTypes, p \in Operands :
                 createImageWrite(it, p, -5, -6)
  \/ Defined /\ \E t \in Types, it \in SampledTypes, p \in Operands, nu \in Flag,
                 component \in Present, compareVal \in Present,
                 constOffset \in Present, varOffset \in Present,
                 constOffsets \in Present, sample \in Present,
                 residencyCode \in Residency :
                 createImageGather(t, it, p, -4, nu, -5, component, compareVal,
                                   constOffset, varOffset, constOffsets, sample,
                                   residencyCode)

SpecImage == Init /\ [][NextImage]_vars

\* ------------------------------------------------------------- SpecCaps
\* The operations that require capabilities, called one after another across
\* functions: composeImageOperandsMask, createImageWrite and createImageSample
\* between the lifecycle operations, up to MaxNodes nodes.
NextCaps ==
  \/ \E t \in Types, n \in Names : beginFunction(t, n)
  \/ \E n \in Names : createBasicBlock(n)
  \/ \E bb \in BlockArgs : setInsertPoint(bb)
  \/ endFunction
  \/ /\ lastOp.name # "composeImageOperandsMask"
     /\ \E varOffset \in Present, minLod \in Present :
           callComposeImageOperandsMask(NoInst, NoInst, NoInst, NoInst, NoInst,
                                        varOffset, NoInst, NoInst, minLod)
  \/ lastOp.res # "ub" /\ \E p \in Operands :
        createImageWrite("RWTexture2D<float4>", p, -5, -6)
  \/ lastOp.res # "ub" /\ \E t \in Types, p \in Operands :
        createImageSample(t, "Texture2D", p, -4, 0, -5, NoInst, NoInst, NoInst,
                          NoInst, NoInst, NoInst, NoInst, NoInst, NoInst,
                          NoInst, -3)

SpecCaps == Init /\ [][NextCaps]_vars

\* ------------------------------------------------------------- SpecMask
\* composeImageOperandsMask called with every combination of present and
\* absent operands, in every state the lifecycle operations reach; two calls
\* of it are separated by a lifecycle call.
NextMask ==
  \/ \E t \in Types, n \in Names : beginFunction(t, n)
  \/ \E n \in Names : createBasicBlock(n)
  \/ \E bb \in BlockArgs : setInsertPoint(bb)
  \/ endFunction
  \/ /\ lastOp.name # "composeImageOperandsMask"
     /\ \E bias \in Present, lod \in Present, gradFirst \in Present,
           gradSecond \in Present, constOffset \in Present,
           varOffset \in Present, constOffsets \in Present,
           sample \in Present, minLod \in Present :
           callComposeImageOperandsMask(bias, lod, gradFirst, gradSecond,
                                        constOffset, varOffset, constOffsets,
                                        sample, minLod)

SpecMask == Init /\ [][NextMask]_vars

\* ------------------------------------------------------------------ C11
\* bit k of a mask
Bit(mask, k) == (mask \div (2 ^ k)) % 2 = 1
\* the presence flags of a composeImageOperandsMask call, bit 0 to bit 7
Flags(a) ==
  << a[1] # NoInst, a[2] # NoInst, a[3] # NoInst /\ a[4] # NoInst,
     a[5] # NoInst, a[6] # NoInst, a[7] # NoInst, a[8] # NoInst,
     a[9] # NoInst >>

\* C11: the mask composeImageOperandsMask returns has bit k set exactly
\* when the k-th operand of Bias, Lod, Grad (both gradients), ConstOffset,
\* Offset, ConstOffsets, Sample, MinLod is present, and no bit above bit 7,
\* whatever state the builder is in.
C11_MaskBits ==
  [][ OK("composeImageOperandsMask")
      => /\ lastOp'.ret \in 0..255
         /\ \A k \in 0..7 :
              Bit(lastOp'.ret, k) <=> Flags(lastOp'.args)[k + 1] ]_vars

\* a call with lod, one gradient only, constOffset and minLod present, made
\* while a function is open and one is closed: Lod + ConstOffset + MinLod
C11_Witness ==
  /\ lastOp.name = "composeImageOperandsMask"
  /\ lastOp.args = <<NoInst, -2, -2, NoInst, -2, NoInst, NoInst, NoInst, -2>>
  /\ lastOp.ret = 138
  /\ function # NoFn /\ modFunctions # <<>>

\* ------------------------------------------------------------------ C12
\* C12: composeImageOperandsMask adds ImageGatherExtended exactly when a
\* variable offset or a constant-offsets list is present, MinLod exactly
\* when a minimum Lod is present, and nothing else; a capability already in
\* the set, or required twice in one call, is in the set once.
C12_MaskCapabilities ==
  [][ OK("composeImageOperandsMask")
      => LET a == lastOp'.args
             added == (IF a[6] # NoInst \/ a[7] # NoInst
                       THEN {"ImageGatherExtended"} ELSE {})
                      \cup (IF a[9] # NoInst THEN {"MinLod"} ELSE {})
         IN  /\ capabilities' = capabilities \cup added
             /\ Cardinality(capabilities') =
                  Cardinality(capabilities)
                  + Cardinality(added \ capabilities) ]_vars

\* a call with both offsets and minLod present, after which the set holds
\* the two capabilities, each once
C12_Witness ==
  /\ lastOp.name = "composeImageOperandsMask"
  /\ lastOp.args[6] # NoInst /\ lastOp.args[7] # NoInst
  /\ lastOp.args[9] # NoInst
  /\ capabilities = {"ImageGatherExtended", "MinLod"}
  /\ Cardinality(capabilities) = 2

\* ------------------------------------------------------------------ C13
Str(b, text) == IF b THEN text ELSE ""

\* C13: a successful createImageSample appends first an OpSampledImage of
\* the given image and sampler and directly after it the sample instruction,
\* whose image operand is that combinator and whose opcode is
\* OpImage[Sparse]Sample[Dref]{Explicit,Implicit}Lod: Sparse iff residencyCode
\* is supplied, Dref iff compareVal is, ExplicitLod iff lod or both gradients
\* are; no other argument enters the opcode.
C13_SampleOpcode ==
  [][ OK("createImageSample")
      => LET a == lastOp'.args
             dref == a[5] # NoInst
             explicit == a[7] # NoInst \/ (a[8] # NoInst /\ a[9] # NoInst)
             sparse == a[15] # NoInst
         IN  /\ AppendOnly
             /\ Len(Appended) >= 2
             /\ Appended[1].op = "OpSampledImage"
             /\ Appended[1].a = <<a[1], a[2]>>
             /\ Appended[2].a[1] = Appended[1].id
             /\ Appended[2].op =
                  "OpImage" \o Str(sparse, "Sparse") \o "Sample"
                  \o Str(dref, "Dref")
                  \o (IF explicit THEN "ExplicitLod" ELSE "ImplicitLod") ]_vars

\* a sparse depth-comparison sample with a complete gradient pair and no lod,
\* after a load: combinator, then OpImageSparseSampleDrefExplicitLod
C13_Witness ==
  /\ lastOp.name = "createImageSample" /\ lastOp.res = "ok"
  /\ lastOp.args[5] # NoInst /\ lastOp.args[7] = NoInst
  /\ lastOp.args[8] # NoInst /\ lastOp.args[9] # NoInst
  /\ lastOp.args[15] # NoInst
  /\ insertPoint \in BlockIds
  /\ Len(blocks[insertPoint].insts) = 6
  /\ blocks[insertPoint].insts[1].op = "OpLoad"
  /\ blocks[insertPoint].insts[2].op = "OpSampledImage"
  /\ blocks[insertPoint].insts[3].op = "OpImageSparseSampleDrefExplicitLod"

\* ------------------------------------------------------------------ C14
\* C14: createImageSample with the cursor set and both lod and minLod
\* supplied aborts, whatever the other operands are, with no node allocated,
\* no block changed and no capability added; with minLod, both gradients and
\* no lod it succeeds.
C14_LodMinLodExclusive ==
  [][ (lastOp'.name = "createImageSample" /\ insertPoint \in BlockIds)
      => LET a == lastOp'.args
         IN  /\ (a[7] # NoInst /\ a[14] # NoInst)
                  => /\ lastOp'.res = "abort"
                     /\ aborted' # "none"
                     /\ UNCHANGED built
             /\ (a[7] = NoInst /\ a[14] # NoInst
                 /\ a[8] # NoInst /\ a[9] # NoInst)
                  => lastOp'.res = "ok" ]_vars

\* the abort happened on a sparse call with both offsets, lod and minLod, with
\* the cursor on a block holding a load: nothing was added
C14_Witness ==
  /\ lastOp.name = "createImageSample" /\ lastOp.res = "abort"
  /\ lastOp.args[7] # NoInst /\ lastOp.args[14] # NoInst
  /\ lastOp.args[11] # NoInst /\ lastOp.args[12] # NoInst
  /\ lastOp.args[15] # NoInst
  /\ insertPoint \in BlockIds
  /\ Shape(blocks[insertPoint].insts) = << <<"OpLoad", <<-2>>>> >>
  /\ capabilities = {}

\* ------------------------------------------------------------------ C15
\* the three nodes of a sparse unwrap of instruction inst into location
\* residencyCode: extract of field 0, store of it, extract of field 1
Unwrapped(nodes, inst, residencyCode) ==
  /\ Len(nodes) = 3
  /\ Shape(nodes) = << <<"OpCompositeExtract", <<inst.id, 0>>>>,
                       <<"OpStore", <<residencyCode, nodes[1].id>>>>,
                       <<"OpCompositeExtract", <<inst.id, 1>>>> >>

\* C15: a successful createImageSample with residencyCode supplied adds
\* SparseResidency and appends five instructions: combinator, sample, extract
\* of field 0 of the sample, one store of that extract into residencyCode,
\* extract of field 1 of the sample, which it returns; without residencyCode it
\* appends the combinator and the sample only, returns the sample and does not
\* add SparseResidency.
C15_SampleSparseUnwrap ==
  [][ OK("createImageSample")
      => LET a == lastOp'.args
         IN  /\ AppendOnly
             /\ IF a[15] # NoInst
                THEN /\ "SparseResidency" \in capabilities'
                     /\ Len(Appended) = 5
                     /\ Unwrapped(SubSeq(Appended, 3, 5), Appended[2], a[15])
                     /\ lastOp'.ret = Appended[5].id
                ELSE /\ Len(Appended) = 2
                     /\ lastOp'.ret = Appended[2].id
                     /\ "SparseResidency" \in capabilities'
                          <=> "SparseResidency" \in capabilities ]_vars

\* a sparse sample into an empty block: five instructions, the last returned
C15_Witness ==
  /\ lastOp.name = "createImageSample" /\ lastOp.res = "ok"
  /\ lastOp.args[15] = -3
  /\ insertPoint \in BlockIds
  /\ Len(blocks[insertPoint].insts) = 5
  /\ blocks[insertPoint].insts[4].op = "OpStore"
  /\ blocks[insertPoint].insts[4].a[1] = -3
  /\ lastOp.ret = blocks[insertPoint].insts[5].id
  /\ capabilities = {"SparseResidency"}

\* ------------------------------------------------------------------ C16
\* C16: the result type of the sample instruction createImageSample emits
\* is the struct (uint status, texel) when residencyCode is supplied and the
\* texel type otherwise; the texel type is that of the returned field-1
\* extract.
C16_SparseResultIsStruct ==
  [][ OK("createImageSample")
      => IF lastOp'.args[15] # NoInst
         THEN /\ Len(Appended) = 5
              /\ Appended[2].ty = "struct {uint; " \o Appended[5].ty \o "}"
         ELSE Appended[2].ty \in Types ]_vars

\* ------------------------------------------------------------------ C17
\* C17: a successful createImageFetchOrRead appends as its first
\* instruction OpImage[Sparse]{Fetch,Read} on the image itself (no
\* OpSampledImage), Fetch iff doImageFetch and Sparse iff residencyCode is
\* supplied, with a mask without the Bias, Grad and MinLod bits; with
\* residencyCode it adds SparseResidency, appends the unwrap and returns the
\* field-1 extract; without it that one instruction is all it appends and
\* what it returns.
C17_FetchOrRead ==
  [][ OK("createImageFetchOrRead")
      => LET a == lastOp'.args
             sparse == a[9] # NoInst
         IN  /\ AppendOnly
             /\ Len(Appended) >= 1
             /\ \A i \in 1..Len(Appended) : Appended[i].op # "OpSampledImage"
             /\ Appended[1].op = "OpImage" \o Str(sparse, "Sparse")
                                 \o (IF a[1] = 1 THEN "Fetch" ELSE "Read")
             /\ Appended[1].a[1] = a[2]
             /\ ~Bit(Appended[1].a[3], 0)
             /\ ~Bit(Appended[1].a[3], 2)
             /\ ~Bit(Appended[1].a[3], 7)
             /\ IF sparse
                THEN /\ "SparseResidency" \in capabilities'
                     /\ Len(Appended) = 4
                     /\ Unwrapped(SubSeq(Appended, 2, 4), Appended[1], a[9])
                     /\ lastOp'.ret = Appended[4].id
                ELSE /\ Len(Appended) = 1
                     /\ lastOp'.ret = Appended[1].id ]_vars

\* a sparse read with lod and sample supplied, after a load
C17_Witness ==
  /\ lastOp.name = "createImageFetchOrRead" /\ lastOp.res = "ok"
  /\ lastOp.args[1] = 0 /\ lastOp.args[9] # NoInst
  /\ lastOp.args[4] # NoInst /\ lastOp.args[8] # NoInst
  /\ insertPoint \in BlockIds
  /\ Len(blocks[insertPoint].insts) = 5
  /\ blocks[insertPoint].insts[1].op = "OpLoad"
  /\ blocks[insertPoint].insts[2].op = "OpImageSparseRead"
  /\ blocks[insertPoint].insts[2].a[3] = LodBit + SampleBit

\* ------------------------------------------------------------------ C18
\* the capabilities the type translator can resolve for a storage image
StorageCaps == {getCapabilityForStorageImageReadWrite(it) : it \in StorageTypes}

\* C18: a successful createImageWrite adds exactly the storage-image
\* capability of its image type, appends one OpImageWrite with mask 0 and
\* returns nothing; a successful createImageFetchOrRead adds the
\* storage-image capability of its image type when reading and no
\* storage-image capability when fetching.
C18_StorageImageCapability ==
  /\ [][ OK("createImageWrite")
         => LET a == lastOp'.args
            IN  /\ AppendOnly
                /\ capabilities' = capabilities
                     \cup {getCapabilityForStorageImageReadWrite(a[4])}
                /\ Len(Appended) = 1
                /\ Appended[1].op = "OpImageWrite"
                /\ Appended[1].a[3] = 0
                /\ lastOp'.ret = 0 ]_vars
  /\ [][ OK("createImageFetchOrRead")
         => LET a == lastOp'.args
            IN  IF a[1] = 0
                THEN getCapabilityForStorageImageReadWrite(a[10])
                       \in capabilities'
                ELSE (capabilities' \ capabilities) \cap StorageCaps = {} ]_vars

\* a write to an RWTexture2D<float4> after a load
C18_Witness ==
  /\ lastOp.name = "createImageWrite" /\ lastOp.res = "ok"
  /\ lastOp.args[4] = "RWTexture2D<float4>"
  /\ insertPoint \in BlockIds
  /\ Len(blocks[insertPoint].insts) = 2
  /\ blocks[insertPoint].insts[1].op = "OpLoad"
  /\ blocks[insertPoint].insts[2].op = "OpImageWrite"
  /\ capabilities = {"StorageImageReadWithoutFormat"}

\* ------------------------------------------------------------------ C19
\* C19: a successful createImageGather appends first an OpSampledImage of
\* the given image and sampler and directly after it the gather, whose image
\* operand is that combinator, whose opcode is OpImage[Sparse][Dref]Gather
\* (Sparse iff residencyCode is supplied, Dref iff compareVal is) and whose
\* mask has none of the Bias, Lod, Grad and MinLod bits; with residencyCode it
\* adds SparseResidency, appends the unwrap and returns the field-1 extract,
\* without it it returns the gather.
C19_Gather ==
  [][ OK("createImageGather")
      => LET a == lastOp'.args
             sparse == a[11] # NoInst
         IN  /\ AppendOnly
             /\ Len(Appended) >= 2
             /\ Appended[1].op = "OpSampledImage"
             /\ Appended[1].a = <<a[1], a[2]>>
             /\ Appended[2].a[1] = Appended[1].id
             /\ Appended[2].op = "OpImage" \o Str(sparse, "Sparse")
                                 \o Str(a[6] # NoInst, "Dref") \o "Gather"
             /\ \A k \in {0, 1, 2, 7} : ~Bit(Appended[2].a[3], k)
             /\ IF sparse
                THEN /\ "SparseResidency" \in capabilities'
                     /\ Len(Appended) = 5
                     /\ Unwrapped(SubSeq(Appended, 3, 5), Appended[2], a[11])
                     /\ lastOp'.ret = Appended[5].id
                ELSE /\ Len(Appended) = 2
                     /\ lastOp'.ret = Appended[2].id ]_vars

\* a sparse gather without depth comparison, with a variable offset, after a
\* load
C19_Witness ==
  /\ lastOp.name = "createImageGather" /\ lastOp.res = "ok"
  /\ lastOp.args[6] = NoInst /\ lastOp.args[8] # NoInst
  /\ lastOp.args[11] # NoInst
  /\ insertPoint \in BlockIds
  /\ Len(blocks[insertPoint].insts) = 6
  /\ blocks[insertPoint].insts[1].op = "OpLoad"
  /\ blocks[insertPoint].insts[3].op = "OpImageSparseGather"
  /\ "ImageGatherExtended" \in capabilities
  /\ "SparseResidency" \in capabilities

\* ------------------------------------------------------------------ C20
\* the capabilities a call requires, read off its arguments
Required(call) ==
  IF call.name = "composeImageOperandsMask"
  THEN (IF call.args[6] # NoInst \/ call.args[7] # NoInst
        THEN {"ImageGatherExtended"} ELSE {})
       \cup (IF call.args[9] # NoInst THEN {"MinLod"} ELSE {})
  ELSE IF call.name = "createImageWrite"
  THEN {getCapabilityForStorageImageReadWrite(call.args[4])}
  ELSE IF call.name = "createImageSample"
  THEN (IF call.args[15] # NoInst THEN {"SparseResidency"} ELSE {})
       \cup (IF call.args[11] # NoInst \/ call.args[12] # NoInst
             THEN {"ImageGatherExtended"} ELSE {})
       \cup (IF call.args[14] # NoInst THEN {"MinLod"} ELSE {})
  ELSE {}

\* C20: no step removes a capability: every step, endFunction,
\* beginFunction and the fatal failures included, leaves the set as it was or
\* larger; a failing call leaves it as it was; a successful call leaves it as
\* the union with what the call requires, so requiring a capability that is
\* present changes nothing; and composeImageOperandsMask, which only requires
\* capabilities, never fails.
C20_CapabilitiesMonotonic ==
  [][ /\ capabilities \subseteq capabilities'
      /\ lastOp'.res = "abort" => capabilities' = capabilities
      /\ lastOp'.res = "ok"
           => /\ capabilities' = capabilities \cup Required(lastOp')
              /\ Required(lastOp') \subseteq capabilities
                   => capabilities' = capabilities
      /\ lastOp'.name = "composeImageOperandsMask"
           => lastOp'.res = "ok" /\ aborted' = "none" ]_vars

\* the second function's block has just received an image write while a
\* closed function's block holds one too: the capability, required twice over
\* two functions, is in the set once
C20_Witness ==
  /\ lastOp.name = "createImageWrite" /\ lastOp.res = "ok"
  /\ modFunctions = <<1>> /\ function = 2
  /\ Len(blocks) = 2 /\ insertPoint = 2
  /\ Shape(blocks[1].insts) = Shape(blocks[2].insts)
  /\ Len(blocks[2].insts) = 1
  /\ blocks[2].insts[1].op = "OpImageWrite"
  /\ capabilities = {"StorageImageReadWithoutFormat"}

\* ------------------------------------------------------------- SpecQuery
\* The non-image constructors over the lifecycle of a one-function module:
\* loads, integer adds and value returns placed one after another across the
\* function's blocks, the function closed or left open, and then one call of
\* any other non-image constructor, createUnaryOp and createBinaryOp with
\* each image-query opcode included.  createEmitVertex and createEndPrimitive
\* are called in each of the states before that call, and the one after a
\* createUnaryOp, the other after a createBinaryOp, that returned normally.
PlainOps == {"OpLoad", "OpIAdd", "OpReturnValue"}

RECURSIVE CountMarked(_)
CountMarked(insts) ==
  IF insts = <<>> THEN 0
  ELSE (IF Head(insts).op \in PlainOps THEN 0 ELSE 1) + CountMarked(Tail(insts))

RECURSIVE SumMarked(_)
SumMarked(n) == IF n = 0 THEN 0 ELSE CountMarked(blocks[n].insts) + SumMarked(n - 1)

Plain == aborted = "none" /\ lastOp.res # "ub" /\ SumMarked(Len(blocks)) = 0

\* the last call was of the named method and returned normally
OKd(name) == lastOp.name = name /\ lastOp.res = "ok"

UnaryOps == {"OpSNegate", "OpImageQuerySize", "OpImageQueryLevels", "OpImageQuerySamples"}

BinaryOps == {"OpFMul", "OpImageQueryLod", "OpImageQuerySizeLod"}

NextQuery ==
  \/ Plain /\ fns = <<>> /\ \E t \in Types, n \in Names : beginFunction(t, n)
  \/ Plain /\ \E n \in Names : createBasicBlock(n)
  \/ Plain /\ \E bb \in BlockArgs : setInsertPoint(bb)
  \/ Plain /\ endFunction
  \/ Plain /\ \E t \in Types, p \in Operands : createLoad(t, p)
  \/ Plain /\ \E t \in Types, p \in Operands : createBinaryOp("OpIAdd", t, p, p)
  \/ Plain /\ \E p \in Operands : createReturnValue(p)
  \/ Plain /\ \E op \in UnaryOps, t \in Types, p \in Operands :
                     createUnaryOp(op, t, p)
  \/ Plain /\ \E op \in BinaryOps, t \in Types, p \in Operands :
                     createBinaryOp(op, t, p, p)
  \/ Plain /\ \E op \in {"OpIMul", "OpImageQuerySizeLod"}, t \in Types,
                     p \in Operands : createSpecConstantBinaryOp(op, t, p, p)
  \/ Plain /\ \E p \in Operands : createStore(p, p)
  \/ Plain /\ \E t \in Types, p \in Operands : createCompositeConstruct(t, p, p)
  \/ Plain /\ \E t \in Types, p \in Operands : createCompositeExtract(t, p, 0)
  \/ Plain /\ \E t \in Types, p \in Operands : createCompositeInsert(t, p, 0, p)
  \/ Plain /\ \E t \in Types, p \in Operands : createVectorShuffle(t, p, p, 0)
  \/ Plain /\ \E t \in Types, p \in Operands : createFunctionCall(t, 1, p)
  \/ Plain /\ \E t \in Types, p \in Operands : createAccessChain(t, p, p)
  \/ Plain /\ \E t \in Types :
                     createGroupNonUniformElect("OpGroupNonUniformElect", t, 3)
  \/ Plain /\ \E t \in Types, p \in Operands :
                     createGroupNonUniformUnaryOp("OpGroupNonUniformAll", t, 3, p, 0)
  \/ Plain /\ \E t \in Types, p \in Operands :
                     createGroupNonUniformBinaryOp("OpGroupNonUniformBroadcast",
                                                   t, 3, p, p)
  \/ Plain /\ \E t \in Types, p \in Operands :
                     createAtomicOp("OpAtomicIAdd", t, p, 1, 0, p)
  \/ Plain /\ \E t \in Types, p \in Operands :
                     createAtomicCompareExchange(t, p, 1, 0, 0, p, p)
  \/ Plain /\ \E t \in Types, p \in Operands :
                     createImageTexelPointer(t, p, p, NoInst)
  \/ Plain /\ \E p \in Operands : createImageSparseTexelsResident(p)
  \/ Plain /\ \E t \in Types, p \in Operands : createSelect(t, p, p, p)
  \/ Plain /\ \E t \in Types, p \in Operands : createExtInst(t, p, 1, p)
  \/ Plain /\ createBarrier(1, 0, 0)
  \/ Plain /\ \E t \in Types, p \in Operands : createBitFieldInsert(t, p, p, p, p)
  \/ Plain /\ \E t \in Types, p \in Operands : createBitFieldExtract(t, p, p, p, 1)
  \/ Plain /\ createKill
  \/ Plain /\ createReturn
  \/ Plain /\ createBranch(1, 1, 1, 0)
  \/ Plain /\ \E p \in Operands : createConditionalBranch(p, 1, 1, 1, NoBlock, 0, 0)
  \/ Plain /\ \E p \in Operands : createSwitch(1, p, 1, <<<<7, 1>>>>)
  \/ (Plain \/ OKd("createUnaryOp")) /\ createEmitVertex
  \/ (Plain \/ OKd("createBinaryOp")) /\ createEndPrimitive

SpecQuery == Init /\ [][NextQuery]_vars

\* ------------------------------------------------------------------ C21
\* the constructors that are no image sample, fetch, read, write or gather
NonImageNames ==
  EmitterNames \ {"createImageSample", "createImageFetchOrRead",
                  "createImageWrite", "createImageGather"}

\* the image-query opcodes
QueryOps ==
  {"OpImageQuerySize", "OpImageQueryLevels", "OpImageQuerySamples",
   "OpImageQueryLod", "OpImageQuerySizeLod"}

\* the step is a successful createUnaryOp or createBinaryOp whose appended
\* instruction carries one of the image-query opcodes of that constructor
IsQuery ==
  \/ /\ lastOp'.name = "createUnaryOp"
     /\ Appended[1].op \in {"OpImageQuerySize", "OpImageQueryLevels",
                            "OpImageQuerySamples"}
  \/ /\ lastOp'.name = "createBinaryOp"
     /\ Appended[1].op \in {"OpImageQueryLod", "OpImageQuerySizeLod"}

\* the opcodes of a block's instructions, in order
Opcodes(nodes) == [i \in 1..Len(nodes) |-> nodes[i].op]

RECURSIVE HasQuery(_)
\* some instruction of the first n blocks carries an image-query opcode
HasQuery(n) ==
  IF n = 0 THEN FALSE
  ELSE (\E i \in 1..Len(blocks[n].insts) : blocks[n].insts[i].op \in QueryOps)
       \/ HasQuery(n - 1)

\* C21: among the non-image constructors only createUnaryOp with
\* OpImageQuerySize, OpImageQueryLevels or OpImageQuerySamples and
\* createBinaryOp with OpImageQueryLod or OpImageQuerySizeLod add a
\* capability, the image-query one; with any other opcode, and for every
\* other non-image constructor, a successful call leaves the capability set
\* as it was.  createUnaryOp and createBinaryOp append and return the one
\* node they allocate whatever the opcode.  So a module whose blocks hold no
\* image-query instruction has an empty capability set.
C21_OnlyImageQueryRequires ==
  /\ [][ (lastOp'.name \in NonImageNames /\ lastOp'.res = "ok")
           => /\ AppendOnly
              /\ capabilities' =
                   capabilities \cup (IF IsQuery THEN {"ImageQuery"} ELSE {})
              /\ lastOp'.name \in {"createUnaryOp", "createBinaryOp"}
                   => /\ Len(Appended) = 1
                      /\ Appended[1].id = nNodes + 1
                      /\ lastOp'.ret = Appended[1].id
                      /\ Appended[1].cls =
                           (IF lastOp'.name = "createUnaryOp"
                            THEN "SpirvUnaryOp" ELSE "SpirvBinaryOp")
                      /\ Appended[1].a = lastOp'.args ]_vars
  /\ [](lastOp.res # "ub" /\ ~HasQuery(Len(blocks)) => capabilities = {})

\* a block that holds a load and an integer add has just received
\* OpImageQuerySamples from createUnaryOp, which returned that node, and the
\* capability set holds the image-query capability alone
C21_Witness ==
  /\ lastOp.name = "createUnaryOp" /\ lastOp.res = "ok"
  /\ insertPoint \in BlockIds
  /\ Opcodes(blocks[insertPoint].insts) =
       <<"OpLoad", "OpIAdd", "OpImageQuerySamples">>
  /\ lastOp.ret = blocks[insertPoint].insts[3].id
  /\ capabilities = {"ImageQuery"}

\* ------------------------------------------------------------------ C22
\* C22: createEmitVertex and createEndPrimitive never fail and change
\* nothing: whether no function is open, one is open with the cursor unset,
\* or one is open with the cursor on a block, the call returns normally and
\* every block's instructions and edges, the cursor, the active function, the
\* pending list, the functions, the module, the capability set and the arena
\* are as they were.
C22_EmitVertexEndPrimitiveInert ==
  [][ lastOp'.name \in {"createEmitVertex", "createEndPrimitive"}
        => /\ lastOp'.res = "ok"
           /\ lastOp'.ret = NoInst
           /\ aborted' = "none"
           /\ UNCHANGED built ]_vars

\* createEmitVertex has returned with a function open and the cursor on a
\* block that holds an image query, the capability set not empty
C22_Witness ==
  /\ lastOp.name = "createEmitVertex" /\ lastOp.res = "ok"
  /\ function # NoFn /\ insertPoint \in BlockIds
  /\ Opcodes(blocks[insertPoint].insts) = <<"OpLoad", "OpImageQuerySize">>
  /\ capabilities = {"ImageQuery"}
  /\ aborted = "none"

\* ------------------------------------------------------------------ C23
\* the sample opcodes with an explicit level of detail, and those without
ExplicitLodOps ==
  {"OpImageSampleExplicitLod", "OpImageSampleDrefExplicitLod",
   "OpImageSparseSampleExplicitLod", "OpImageSparseSampleDrefExplicitLod"}

ImplicitLodOps ==
  {"OpImageSampleImplicitLod", "OpImageSampleDrefImplicitLod",
   "OpImageSparseSampleImplicitLod", "OpImageSparseSampleDrefImplicitLod"}

\* C23: in the sample instruction a successful createImageSample appends,
\* the opcode is an ExplicitLod one exactly when the instruction's operand
\* mask holds the Lod bit or the Grad bit, and an ImplicitLod one otherwise,
\* for every combination of operands; with one gradient of the pair supplied
\* the mask has no Grad bit and, with no lod either, the opcode is an
\* ImplicitLod one.
C23_ExplicitIffLodOrGrad ==
  [][ OK("createImageSample")
      => LET a == lastOp'.args
             inst == Appended[2]
             mask == inst.a[3]
             lone == (a[8] # NoInst) # (a[9] # NoInst)
         IN  /\ Len(Appended) >= 2
             /\ inst.cls = "SpirvImageOp"
             /\ inst.op \in ExplicitLodOps \cup ImplicitLodOps
             /\ inst.op \in ExplicitLodOps <=> (Bit(mask, 1) \/ Bit(mask, 2))
             /\ lone => ~Bit(mask, 2)
             /\ (lone /\ a[7] = NoInst) => inst.op \in ImplicitLodOps ]_vars

\* a sample with gradient-x alone, no lod and no bias: ImplicitLod opcode and
\* an empty mask in the instruction that follows the combinator
C23_Witness ==
  /\ lastOp.name = "createImageSample" /\ lastOp.res = "ok"
  /\ lastOp.args[8] # NoInst /\ lastOp.args[9] = NoInst
  /\ lastOp.args[7] = NoInst
  /\ insertPoint \in BlockIds
  /\ Len(blocks[insertPoint].insts) = 2
  /\ blocks[insertPoint].insts[2].op = "OpImageSampleImplicitLod"
  /\ blocks[insertPoint].insts[2].a[3] = 0

\* ------------------------------------------------------------------ C24
EdgeNames == {"addSuccessor", "setMergeTarget", "setContinueTarget"}

TerminatorNames ==
  {"createBranch", "createConditionalBranch", "createSwitch", "createKill",
   "createReturn", "createReturnValue"}

\* a block's successor set, merge target and continue target
Edges(b) == <<b.succ, b.merge, b.cont>>

\* the cursor block after a successful call of the named edge mutator
Edited(name, b, bb) ==
  IF name = "addSuccessor" THEN [b EXCEPT !.succ = @ \cup {bb}]
  ELSE IF name = "setMergeTarget" THEN [b EXCEPT !.merge = bb]
  ELSE [b EXCEPT !.cont = bb]

\* C24: a block's successor set, merge target and continue target change
\* only in a successful addSuccessor, setMergeTarget or setContinueTarget, and
\* only for the block at the cursor.  Such a call adds its argument to the
\* successors, or replaces the merge target, or replaces the continue target,
\* of that block and changes nothing else: no instruction is appended, no
\* node allocated, every other block, the cursor, the functions, the module
\* and the capability set are as they were; with the cursor unset it ends in
\* the "null insert point" assertion failure and changes nothing.  A
\* successful createBranch, createConditionalBranch, createSwitch, createKill,
\* createReturn or createReturnValue, with or without a merge marker, leaves
\* the edges of every block, the cursor block included, as they were; a new
\* block starts with no successor, no merge target and no continue target.
C24_EdgesOnlyByMutators ==
  [][ /\ Len(blocks') >= Len(blocks)
      /\ \A b \in 1..Len(blocks') :
           IF b \in BlockIds
           THEN Edges(blocks'[b]) # Edges(blocks[b])
                  => /\ lastOp'.name \in EdgeNames
                     /\ lastOp'.res = "ok"
                     /\ b = insertPoint
           ELSE Edges(blocks'[b]) = <<{}, NoBlock, NoBlock>>
      /\ (lastOp'.name \in EdgeNames /\ insertPoint = NoBlock)
           => /\ lastOp'.res = "abort"
              /\ aborted' = "null insert point"
              /\ UNCHANGED built
      /\ (lastOp'.name \in EdgeNames /\ lastOp'.res = "ok")
           => /\ insertPoint \in BlockIds
              /\ blocks' = [blocks EXCEPT ![insertPoint] =
                              Edited(lastOp'.name, @, lastOp'.args[1])]
              /\ blocks'[insertPoint].insts = blocks[insertPoint].insts
              /\ lastOp'.ret = NoInst
              /\ UNCHANGED <<function, insertPoint, basicBlocks, modFunctions,
                             capabilities, fns, nNodes, aborted>>
      /\ (lastOp'.name \in TerminatorNames /\ lastOp'.res = "ok")
           => /\ insertPoint \in BlockIds
              /\ Len(Appended) >= 1
              /\ Edges(blocks'[insertPoint]) = Edges(blocks[insertPoint])
              /\ \A b \in BlockIds : b # insertPoint => blocks'[b] = blocks[b]
    ]_vars

\* createBranch has appended a loop merge naming blocks 1 and 2 and the
\* branch to the block whose merge target setMergeTarget set to block 2: the
\* merge target is still block 2, and the block has no continue target and
\* no successor
C24_Witness ==
  /\ lastOp.name = "createBranch" /\ lastOp.res = "ok"
  /\ lastOp.args[2] = 1 /\ lastOp.args[3] = 2
  /\ insertPoint \in BlockIds
  /\ Opcodes(blocks[insertPoint].insts) = <<"OpLoopMerge", "OpBranch">>
  /\ blocks[insertPoint].insts[1].a[1] = 1
  /\ Edges(blocks[insertPoint]) = <<{}, 2, NoBlock>>

====
